---------------------------- MODULE Spec2Model ----------------------------
(***************************************************************************)
(* Reality-Signed Legal Approval (vamsiy78/r0).                            *)
(*                                                                         *)
(* A verification development of the approval-session state machine, the   *)
(* approve route and the signature verifier.                               *)
(*                                                                         *)
(* Conventions                                                             *)
(*   - a JavaScript string is a sequence of characters (one-character      *)
(*     TLA+ strings, plus the two named code points U+0301 and U+00E9);    *)
(*   - a byte buffer is a sequence of integers 0..255;                     *)
(*   - a nullable value is <<>> (null) or <<v>>;                           *)
(*   - Date.now() reads the clock `now`, which never goes back; a handler  *)
(*     that reads the clock several times may see it advance in between.   *)
(***************************************************************************)
EXTENDS Integers, Sequences, FiniteSets, TLC

VARIABLES
    now,            \* the wall clock, Unix epoch milliseconds
    libSession,     \* SessionSpec: the session threaded through the library calls
    libCall,        \* SessionSpec: the last library call and what it returned
    vSignature,     \* VerifySpec: the record handed to verify (any JavaScript value)
    vOrigin,        \* VerifySpec: the document and key the record was created from
    vTampers,       \* VerifySpec: how many fields of the record have been overwritten
    vDocument,      \* VerifySpec: the document bytes of the last verify call
    vResult,        \* VerifySpec: what the last verify call returned
    vValidated,     \* VerifySpec: the first document and record verify found valid
    wRecord,        \* WireSpec: the record that is written and read back
    wText,          \* WireSpec: the text the record was last written as
    wDecoded,       \* WireSpec: what a deserializer returned for that text
    iText,          \* IntentSpec: an intent text
    iOther,         \* IntentSpec: the same text written differently
    iEdits,         \* IntentSpec: how many rewritings led from iText to iOther
    iResult,        \* IntentSpec: what canonicalizeIntent and hashIntent returned
    cDocument,      \* CliSpec: the document bytes handed to the verifiers
    cRecord,        \* CliSpec: the compact-format record, as the text of signature.json
    cCli,           \* CliSpec: what the standalone verifier returned
    cLib,           \* CliSpec: what the library verifier returned
    sessionStore,   \* RouteSpec: the sessions held by the server, by id
    signatureStore, \* RouteSpec: the stored signatures, by id
    presenceProofStore, \* RouteSpec: the stored presence proofs, by id
    uploads,        \* RouteSpec: the files of the uploads directory, by path
    uuidCount,      \* RouteSpec: how many identifiers uuidv4 has handed out
    lastUpload,     \* RouteSpec: the response of the last POST /api/approvals
    requests,       \* RouteSpec: the approve requests, each with its handler's position
    lastVerify      \* RouteSpec: the last POST /api/verify and its response

libVars == <<libSession, libCall>>
verifyVars == <<vSignature, vOrigin, vTampers, vDocument, vResult, vValidated>>
wireVars == <<wRecord, wText, wDecoded>>
intentVars == <<iText, iOther, iEdits, iResult>>
cliVars == <<cDocument, cRecord, cCli, cLib>>
routeVars == <<sessionStore, signatureStore, presenceProofStore, uploads,
               uuidCount, lastUpload, requests, lastVerify>>
vars == <<now, libVars, verifyVars, wireVars, intentVars, cliVars, routeVars>>

---------------------------------------------------------------------------
(* Bounds of the model *)

\* the clock starts here (any positive epoch time)
StartTime == 1000
\* clock readings are sampled up to this many milliseconds after the start
\* and around the expiry deadlines
MaxSkew == 1
\* how many fields of a record are overwritten before it is verified
MaxTampers == 2
\* how many sessions POST /api/approvals creates
MaxSessions == 2
\* how many approve requests are made
MaxRequests == 2
\* how many characters an intent text has before it is rewritten
MaxTextLen == 4
\* how many times an intent text is rewritten
MaxEdits == 1

---------------------------------------------------------------------------
(* Nullable values *)

Null == <<>>
Some(v) == <<v>>

---------------------------------------------------------------------------
(* crypto/hash.ts *)

HexDigits == <<"0", "1", "2", "3", "4", "5", "6", "7",
               "8", "9", "a", "b", "c", "d", "e", "f">>

HexChars == {HexDigits[i] : i \in 1..16}

\* length of digest('hex') of a SHA-256 digest
DigestLen == 64

\* the whitespace characters of the alphabet (\s of a JavaScript regex)
Whitespace == {" ", "\t", "\n", "\r"}

\* the printable ASCII characters, code points 32..126 in order (the grave
\* accent, which a TLA+ string cannot hold, by its code point's name)
AsciiPrintable ==
    <<" ", "!", "\"", "#", "$", "%", "&", "'", "(", ")", "*", "+", ",", "-",
      ".", "/", "0", "1", "2", "3", "4", "5", "6", "7", "8", "9", ":", ";",
      "<", "=", ">", "?", "@", "A", "B", "C", "D", "E", "F", "G", "H", "I",
      "J", "K", "L", "M", "N", "O", "P", "Q", "R", "S", "T", "U", "V", "W",
      "X", "Y", "Z", "[", "\\", "]", "^", "_", "U+0060", "a", "b", "c", "d", "e",
      "f", "g", "h", "i", "j", "k", "l", "m", "n", "o", "p", "q", "r", "s",
      "t", "u", "v", "w", "x", "y", "z", "{", "|", "}", "~">>

AsciiChars == {AsciiPrintable[i] : i \in 1..Len(AsciiPrintable)}

CharCode ==
    [c \in AsciiChars |->
        31 + (CHOOSE i \in 1..Len(AsciiPrintable) : AsciiPrintable[i] = c)]

\* The UTF-8 encoding of a character (TextEncoder / update(text, 'utf8')).
Utf8Char(c) ==
    CASE c = "\t" -> <<9>>
      [] c = "\n" -> <<10>>
      [] c = "\r" -> <<13>>
      [] c = "U+00E9" -> <<195, 169>>
      [] c = "U+0301" -> <<204, 129>>
      [] c \in AsciiChars -> <<CharCode[c]>>
      [] OTHER -> <<239, 191, 189>>

\* (a text of ASCII characters is encoded character by character, any other
\* half by half, so that the evaluation stays shallow)
RECURSIVE Utf8(_)
Utf8(text) ==
    IF \A i \in 1..Len(text) : text[i] \in AsciiChars
    THEN [i \in 1..Len(text) |-> CharCode[text[i]]]
    ELSE IF Len(text) = 1 THEN Utf8Char(text[1])
    ELSE LET mid == Len(text) \div 2
         IN  Utf8(SubSeq(text, 1, mid)) \o Utf8(SubSeq(text, mid + 1, Len(text)))

\* the two hexadecimal digits of each byte, as numbers 0..15
Nibbles(bytes) ==
    [i \in 1..(2 * Len(bytes)) |->
        IF i % 2 = 1 THEN bytes[(i + 1) \div 2] \div 16
        ELSE bytes[i \div 2] % 16]

RECURSIVE FoldAt(_, _)
FoldAt(nibbles, i) ==
    IF i > Len(nibbles) THEN 0
    ELSE (nibbles[i] + FoldAt(nibbles, i + DigestLen)) % 16

\* createHash('sha256').update(bytes).digest('hex'): a total function into
\* the strings of 64 lowercase hexadecimal digits.  The digest is modelled
\* as collision-free on the inputs the model hashes: the input's hex digits
\* and an end marker, folded into 64 positions (one-to-one for inputs of up
\* to 31 bytes).
Sha256Hex(bytes) ==
    LET padded == Nibbles(bytes) \o <<8>>
    IN  [i \in 1..DigestLen |-> HexDigits[FoldAt(padded, i) + 1]]

hashDocument(buffer) == Sha256Hex(buffer)

hashString(text) == Sha256Hex(Utf8(text))

\* String.prototype.normalize('NFC') on the alphabet: e followed by the
\* combining acute accent composes to U+00E9.
RECURSIVE NormalizeNFC(_)
NormalizeNFC(text) ==
    IF text = <<>> THEN <<>>
    ELSE IF Len(text) >= 2 /\ text[1] = "e" /\ text[2] = "U+0301"
         THEN <<"U+00E9">> \o NormalizeNFC(Tail(Tail(text)))
         ELSE <<Head(text)>> \o NormalizeNFC(Tail(text))

\* .replace(/\r\n/g, '\n')
RECURSIVE ReplaceCRLF(_)
ReplaceCRLF(text) ==
    IF text = <<>> THEN <<>>
    ELSE IF Len(text) >= 2 /\ text[1] = "\r" /\ text[2] = "\n"
         THEN <<"\n">> \o ReplaceCRLF(Tail(Tail(text)))
         ELSE <<Head(text)>> \o ReplaceCRLF(Tail(text))

\* .replace(/\r/g, '\n')
ReplaceCR(text) ==
    [i \in 1..Len(text) |-> IF text[i] = "\r" THEN "\n" ELSE text[i]]

\* [^\S\n]: whitespace other than the newline
IsBlank(c) == c \in Whitespace /\ c # "\n"

\* .replace(/[^\S\n]+/g, ' ')
RECURSIVE CollapseBlanks(_)
CollapseBlanks(text) ==
    IF text = <<>> THEN <<>>
    ELSE IF IsBlank(Head(text))
         THEN IF Len(text) >= 2 /\ IsBlank(text[2])
              THEN CollapseBlanks(Tail(text))
              ELSE <<" ">> \o CollapseBlanks(Tail(text))
         ELSE <<Head(text)>> \o CollapseBlanks(Tail(text))

RECURSIVE TrimStart(_)
TrimStart(text) ==
    IF text # <<>> /\ Head(text) \in Whitespace THEN TrimStart(Tail(text))
    ELSE text

RECURSIVE TrimEnd(_)
TrimEnd(text) ==
    IF text # <<>> /\ text[Len(text)] \in Whitespace
    THEN TrimEnd(SubSeq(text, 1, Len(text) - 1))
    ELSE text

\* String.prototype.trim()
Trim(text) == TrimEnd(TrimStart(text))

\* .replace(/\s$/, ''): one trailing whitespace character is removed
TrimEndOne(text) ==
    IF text # <<>> /\ text[Len(text)] \in Whitespace
    THEN SubSeq(text, 1, Len(text) - 1)
    ELSE text

\* mutant: the end is trimmed by one character only
canonicalizeIntent_OneTrailing(text) ==
    TrimEndOne(TrimStart(CollapseBlanks(ReplaceCR(ReplaceCRLF(NormalizeNFC(text))))))

canonicalizeIntent(text) ==
    Trim(CollapseBlanks(ReplaceCR(ReplaceCRLF(NormalizeNFC(text)))))

hashIntent(text) == hashString(canonicalizeIntent(text))

---------------------------------------------------------------------------
(* JavaScript values: what a field of an object of unknown type can hold *)

JsString(s) == [type |-> "string", str |-> s, num |-> 0, half |-> FALSE, bool |-> FALSE]
\* the number n, or n + 0.5 when half
JsNumber(n) == [type |-> "number", str |-> <<>>, num |-> n, half |-> FALSE, bool |-> FALSE]
JsNumberAndHalf(n) == [type |-> "number", str |-> <<>>, num |-> n, half |-> TRUE, bool |-> FALSE]
JsBoolean(b) == [type |-> "boolean", str |-> <<>>, num |-> 0, half |-> FALSE, bool |-> b]
JsUndefined == [type |-> "undefined", str |-> <<>>, num |-> 0, half |-> FALSE, bool |-> FALSE]
JsNull == [type |-> "null", str |-> <<>>, num |-> 0, half |-> FALSE, bool |-> FALSE]

\* Number.isInteger
NumberIsInteger(v) == v.type = "number" /\ ~v.half

---------------------------------------------------------------------------
(* JSON.stringify *)

DecimalDigits == <<"0", "1", "2", "3", "4", "5", "6", "7", "8", "9">>

RECURSIVE NatToString(_)
NatToString(n) ==
    IF n < 10 THEN <<DecimalDigits[n + 1]>>
    ELSE NatToString(n \div 10) \o <<DecimalDigits[(n % 10) + 1]>>

\* Number.prototype.toString of n, or of n + 0.5
NumberToString(n, half) ==
    IF half
    THEN IF n >= 0 THEN NatToString(n) \o <<".", "5">>
         ELSE <<"-">> \o NatToString((0 - n) - 1) \o <<".", "5">>
    ELSE IF n >= 0 THEN NatToString(n)
         ELSE <<"-">> \o NatToString(0 - n)

JsonEscapeChar(c) ==
    CASE c = "\"" -> <<"\\", "\"">>
      [] c = "\\" -> <<"\\", "\\">>
      [] c = "\n" -> <<"\\", "n">>
      [] c = "\r" -> <<"\\", "r">>
      [] c = "\t" -> <<"\\", "t">>
      [] OTHER -> <<c>>

RECURSIVE JsonEscape(_)
JsonEscape(s) ==
    IF \A i \in 1..Len(s) : s[i] \notin {"\"", "\\", "\n", "\r", "\t"} THEN s
    ELSE IF Len(s) = 1 THEN JsonEscapeChar(s[1])
    ELSE LET mid == Len(s) \div 2
         IN  JsonEscape(SubSeq(s, 1, mid)) \o JsonEscape(SubSeq(s, mid + 1, Len(s)))

JsonQuote(s) == <<"\"">> \o JsonEscape(s) \o <<"\"">>

\* a nested object, held as its JSON text
JsNested(text) == [type |-> "nested", str |-> text, num |-> 0, half |-> FALSE, bool |-> FALSE]

\* whether if (v) takes the branch
Truthy(v) ==
    CASE v.type = "string" -> v.str # <<>>
      [] v.type = "number" -> v.num # 0 \/ v.half
      [] v.type = "boolean" -> v.bool
      [] v.type = "nested" -> TRUE
      [] OTHER -> FALSE

\* JSON.stringify of a value
JsonValue(v) ==
    CASE v.type = "string" -> JsonQuote(v.str)
      [] v.type = "nested" -> v.str
      [] v.type = "number" -> NumberToString(v.num, v.half)
      [] v.type = "boolean" ->
            IF v.bool THEN <<"t", "r", "u", "e">> ELSE <<"f", "a", "l", "s", "e">>
      [] OTHER -> <<"n", "u", "l", "l">>

\* the members of an object in insertion order; a member whose value is
\* undefined is left out
RECURSIVE JsonMembers(_, _)
JsonMembers(pairs, first) ==
    IF pairs = <<>> THEN <<>>
    ELSE LET key == Head(pairs)[1]
             val == Head(pairs)[2]
         IN  IF val.type = "undefined" THEN JsonMembers(Tail(pairs), first)
             ELSE (IF first THEN <<>> ELSE <<",">>)
                      \o JsonQuote(key) \o <<":">> \o JsonValue(val)
                      \o JsonMembers(Tail(pairs), FALSE)

\* JSON.stringify of an object literal given as <<key, value>> pairs
JsonStringify(pairs) == <<"{">> \o JsonMembers(pairs, TRUE) \o <<"}">>

---------------------------------------------------------------------------
(* JSON.parse, for the texts the program handles: an object whose members
   are strings, numbers, booleans or null, or the literal null *)

\* what JSON.parse gives: an object with its members in the order of the
\* text, the value null, or a SyntaxError
ParsedObject(members) == [kind |-> "object", members |-> members]
ParsedNull == [kind |-> "null", members |-> <<>>]
ParseError == [kind |-> "throw", members |-> <<>>]

\* the decimal value of a non-empty run of digits
RECURSIVE DigitsValue(_)
DigitsValue(digits) ==
    IF digits = <<>> THEN 0
    ELSE 10 * DigitsValue(SubSeq(digits, 1, Len(digits) - 1))
            + (CHOOSE d \in 0..9 : DecimalDigits[d + 1] = digits[Len(digits)])

IsDecimalDigit(c) == \E d \in 1..10 : DecimalDigits[d] = c

\* the character an escape sequence \c stands for, "" when there is none
JsonUnescapeChar(c) ==
    CASE c = "\"" -> "\""
      [] c = "\\" -> "\\"
      [] c = "/" -> "/"
      [] c = "n" -> "\n"
      [] c = "r" -> "\r"
      [] c = "t" -> "\t"
      [] OTHER -> ""

\* the string literal whose opening quote is before position i: its value
\* and the position after its closing quote (next = 0: no valid literal)
RECURSIVE JsonParseChars(_, _, _)
JsonParseChars(text, i, acc) ==
    IF i > Len(text) THEN [str |-> <<>>, next |-> 0]
    ELSE IF text[i] = "\"" THEN [str |-> acc, next |-> i + 1]
    ELSE IF text[i] \in {"\n", "\r", "\t"} THEN [str |-> <<>>, next |-> 0]
    ELSE IF text[i] = "\\"
         THEN IF i + 1 > Len(text) \/ JsonUnescapeChar(text[i + 1]) = ""
              THEN [str |-> <<>>, next |-> 0]
              ELSE JsonParseChars(text, i + 2, Append(acc, JsonUnescapeChar(text[i + 1])))
    ELSE JsonParseChars(text, i + 1, Append(acc, text[i]))

JsonParseString(text, i) ==
    IF \A j \in i..Len(text) : text[j] # "\"" THEN [str |-> <<>>, next |-> 0]
    ELSE LET close == CHOOSE j \in i..Len(text) :
                          /\ text[j] = "\""
                          /\ \A k \in i..(j - 1) : text[k] # "\""
         IN  IF \A k \in i..(close - 1) : text[k] \notin {"\\", "\n", "\r", "\t"}
             THEN [str |-> SubSeq(text, i, close - 1), next |-> close + 1]
             ELSE JsonParseChars(text, i, <<>>)

\* whether the characters of word stand at position i
StartsAt(text, i, word) ==
    /\ i + Len(word) - 1 <= Len(text)
    /\ SubSeq(text, i, i + Len(word) - 1) = word

\* the number literal at position i: -?digits(.5)?
JsonParseNumber(text, i) ==
    LET negative == text[i] = "-"
        from == IF negative THEN i + 1 ELSE i
        stop == IF \A j \in from..Len(text) : IsDecimalDigit(text[j])
                THEN Len(text) + 1
                ELSE CHOOSE j \in from..Len(text) :
                        /\ ~IsDecimalDigit(text[j])
                        /\ \A k \in from..(j - 1) : IsDecimalDigit(text[k])
        digits == SubSeq(text, from, stop - 1)
        half == StartsAt(text, stop, <<".", "5">>)
                    /\ (stop + 2 > Len(text) \/ ~IsDecimalDigit(text[stop + 2]))
        magnitude == DigitsValue(digits)
    IN  IF digits = <<>> \/ (Len(digits) > 1 /\ digits[1] = "0")
        THEN [value |-> JsNull, next |-> 0]
        ELSE IF half
        THEN [value |-> JsNumberAndHalf(IF negative THEN (0 - magnitude) - 1
                                        ELSE magnitude),
              next |-> stop + 2]
        ELSE [value |-> JsNumber(IF negative THEN 0 - magnitude ELSE magnitude),
              next |-> stop]

\* the member value at position i (next = 0: no valid value)
JsonParseValue(text, i) ==
    IF i > Len(text) THEN [value |-> JsNull, next |-> 0]
    ELSE IF text[i] = "\""
         THEN LET s == JsonParseString(text, i + 1)
              IN  [value |-> JsString(s.str), next |-> s.next]
    ELSE IF StartsAt(text, i, <<"t", "r", "u", "e">>)
         THEN [value |-> JsBoolean(TRUE), next |-> i + 4]
    ELSE IF StartsAt(text, i, <<"f", "a", "l", "s", "e">>)
         THEN [value |-> JsBoolean(FALSE), next |-> i + 5]
    ELSE IF StartsAt(text, i, <<"n", "u", "l", "l">>)
         THEN [value |-> JsNull, next |-> i + 4]
    ELSE IF text[i] = "-" \/ IsDecimalDigit(text[i]) THEN JsonParseNumber(text, i)
    ELSE [value |-> JsNull, next |-> 0]

\* the members "key":value,... from position i up to the closing brace,
\* which must end the text
RECURSIVE JsonParseMembers(_, _, _)
JsonParseMembers(text, i, acc) ==
    IF i > Len(text) \/ text[i] # "\"" THEN ParseError
    ELSE LET key == JsonParseString(text, i + 1)
         IN  IF key.next = 0 \/ key.next > Len(text) \/ text[key.next] # ":"
             THEN ParseError
             ELSE LET val == JsonParseValue(text, key.next + 1)
                      members == Append(acc, <<key.str, val.value>>)
                  IN  IF val.next = 0 \/ val.next > Len(text) THEN ParseError
                      ELSE IF text[val.next] = ","
                           THEN JsonParseMembers(text, val.next + 1, members)
                      ELSE IF text[val.next] = "}" /\ val.next = Len(text)
                           THEN ParsedObject(members)
                      ELSE ParseError

JsonParse(text) ==
    IF text = <<"n", "u", "l", "l">> THEN ParsedNull
    ELSE IF Len(text) < 2 \/ text[1] # "{" THEN ParseError
    ELSE IF text = <<"{", "}">> THEN ParsedObject(<<>>)
    ELSE JsonParseMembers(text, 2, <<>>)

\* key in object
HasMember(parsed, key) == \E i \in 1..Len(parsed.members) : parsed.members[i][1] = key

\* object.key: the value of the last member of that name, else undefined
Member(parsed, key) ==
    IF ~HasMember(parsed, key) THEN JsUndefined
    ELSE LET last == CHOOSE i \in 1..Len(parsed.members) :
                        /\ parsed.members[i][1] = key
                        /\ \A j \in (i + 1)..Len(parsed.members) :
                              parsed.members[j][1] # key
         IN  parsed.members[last][2]

---------------------------------------------------------------------------
(* Buffer base64 *)

Base64Alphabet ==
    <<"A", "B", "C", "D", "E", "F", "G", "H", "I", "J", "K", "L", "M", "N",
      "O", "P", "Q", "R", "S", "T", "U", "V", "W", "X", "Y", "Z", "a", "b",
      "c", "d", "e", "f", "g", "h", "i", "j", "k", "l", "m", "n", "o", "p",
      "q", "r", "s", "t", "u", "v", "w", "x", "y", "z", "0", "1", "2", "3",
      "4", "5", "6", "7", "8", "9", "+", "/">>

Base64Chars == {Base64Alphabet[i] : i \in 1..Len(Base64Alphabet)}

Base64Value ==
    [c \in Base64Chars |->
        (CHOOSE i \in 1..Len(Base64Alphabet) : Base64Alphabet[i] = c) - 1]

\* Buffer.from(bytes).toString('base64'): every three bytes give four
\* digits, and an incomplete last group is padded with "="
ToBase64(bytes) ==
    LET n == Len(bytes)
        byte(j) == IF j <= n THEN bytes[j] ELSE 0
    IN  [k \in 1..(4 * ((n + 2) \div 3)) |->
            LET g == 3 * ((k - 1) \div 4)
                pos == (k - 1) % 4
            IN  CASE pos = 0 -> Base64Alphabet[(byte(g + 1) \div 4) + 1]
                  [] pos = 1 ->
                        Base64Alphabet[((byte(g + 1) % 4) * 16)
                                           + (byte(g + 2) \div 16) + 1]
                  [] pos = 2 ->
                        IF g + 2 > n THEN "="
                        ELSE Base64Alphabet[((byte(g + 2) % 16) * 4)
                                                + (byte(g + 3) \div 64) + 1]
                  [] OTHER ->
                        IF g + 3 > n THEN "="
                        ELSE Base64Alphabet[(byte(g + 3) % 64) + 1]]

\* the base64 digits of a string up to its first "=", other characters
\* skipped (the decoder is lenient and never throws)
Base64Sextets(s) ==
    LET pads == {i \in 1..Len(s) : s[i] = "="}
        stop == IF pads = {} THEN Len(s) + 1
                ELSE CHOOSE i \in pads : \A j \in pads : i <= j
        IsDigit(c) == c \in Base64Chars
        digits == SelectSeq(SubSeq(s, 1, stop - 1), IsDigit)
    IN  [i \in 1..Len(digits) |-> Base64Value[digits[i]]]

\* four digits give three bytes; two or three remaining digits give one or
\* two bytes
SextetsToBytes(x) ==
    [j \in 1..((Len(x) * 3) \div 4) |->
        LET g == 4 * ((j - 1) \div 3)
            pos == (j - 1) % 3
        IN  CASE pos = 0 -> (x[g + 1] * 4) + (x[g + 2] \div 16)
              [] pos = 1 -> ((x[g + 2] % 16) * 16) + (x[g + 3] \div 4)
              [] OTHER -> ((x[g + 3] % 4) * 64) + x[g + 4]]

\* Buffer.from(s, 'base64')
FromBase64(s) == SextetsToBytes(Base64Sextets(s))

---------------------------------------------------------------------------
(* crypto/signing.ts: Ed25519, as an ideal signature scheme *)

\* the private keys of the model (seeds, as byte buffers)
PrivateKeys == {<<1>>, <<2>>}

\* ed.getPublicKey: one public key per private key
getPublicKey(privateKey) == [i \in 1..Len(privateKey) |-> 255 - privateKey[i]]

PublicKeys == {getPublicKey(k) : k \in PrivateKeys}

\* first byte of every signature of the model
SignatureMark == 83

\* ed.sign: deterministic; the signature determines the signing key's public
\* key and the message, and only the private key's holder can compute it
Ed25519Sign(message, privateKey) ==
    <<SignatureMark>> \o getPublicKey(privateKey) \o message

\* ed.verify: "throw" for bytes that are no signature or no public key,
\* otherwise whether the signature is the one of the message under the key
Ed25519Verify(signatureBytes, message, publicKeyBytes) ==
    IF publicKeyBytes \notin PublicKeys THEN "throw"
    ELSE IF signatureBytes = <<>> \/ Head(signatureBytes) # SignatureMark THEN "throw"
    ELSE IF signatureBytes = <<SignatureMark>> \o publicKeyBytes \o message
         THEN "true" ELSE "false"

\* sign(payload, privateKey): base64 of the signature of the UTF-8 payload
sign(payload, privateKey) == ToBase64(Ed25519Sign(Utf8(payload), privateKey))

\* mutant: bytes that are no signature or no key are not told from a good
\* signature
verifySignature_ThrowAccepted(payload, signature, publicKey) ==
    Ed25519Verify(FromBase64(signature), Utf8(payload), FromBase64(publicKey)) # "false"

\* verify(payload, signature, publicKey): any exception is a false
verifySignature(payload, signature, publicKey) ==
    Ed25519Verify(FromBase64(signature), Utf8(payload), FromBase64(publicKey)) = "true"

---------------------------------------------------------------------------
(* signature/payload.ts *)

extractPayloadFields(signature) ==
    [ version             |-> signature.version,
      document_hash       |-> signature.document_hash,
      intent_hash         |-> signature.intent_hash,
      intent_text         |-> signature.intent_text,
      approver_id         |-> signature.approver_id,
      approver_name       |-> signature.approver_name,
      timestamp           |-> signature.timestamp,
      presence_proof_id   |-> signature.presence_proof_id,
      presence_proof_hash |-> signature.presence_proof_hash,
      ai_flag             |-> signature.ai_flag ]

\* mutant: ts is written before an
buildSignaturePayload_OrderSwapped(fields) ==
    JsonStringify(<< <<<<"v">>, fields.version>>,
                     <<<<"d", "h">>, fields.document_hash>>,
                     <<<<"i", "h">>, fields.intent_hash>>,
                     <<<<"i", "t">>, fields.intent_text>>,
                     <<<<"a", "i">>, fields.approver_id>>,
                     <<<<"t", "s">>, fields.timestamp>>,
                     <<<<"a", "n">>, fields.approver_name>>,
                     <<<<"p", "p">>, fields.presence_proof_id>>,
                     <<<<"p", "p", "h">>, fields.presence_proof_hash>>,
                     <<<<"a", "f">>, fields.ai_flag>> >>)

\* mutant: the payload leaves out af
buildSignaturePayload_FlagUnsigned(fields) ==
    JsonStringify(<< <<<<"v">>, fields.version>>,
                     <<<<"d", "h">>, fields.document_hash>>,
                     <<<<"i", "h">>, fields.intent_hash>>,
                     <<<<"i", "t">>, fields.intent_text>>,
                     <<<<"a", "i">>, fields.approver_id>>,
                     <<<<"a", "n">>, fields.approver_name>>,
                     <<<<"t", "s">>, fields.timestamp>>,
                     <<<<"p", "p">>, fields.presence_proof_id>>,
                     <<<<"p", "p", "h">>, fields.presence_proof_hash>> >>)

\* JSON.stringify of the payload object, its keys in the fixed order
\* v, dh, ih, it, ai, an, ts, pp, pph, af
buildSignaturePayload(fields) ==
    JsonStringify(<< <<<<"v">>, fields.version>>,
                     <<<<"d", "h">>, fields.document_hash>>,
                     <<<<"i", "h">>, fields.intent_hash>>,
                     <<<<"i", "t">>, fields.intent_text>>,
                     <<<<"a", "i">>, fields.approver_id>>,
                     <<<<"a", "n">>, fields.approver_name>>,
                     <<<<"t", "s">>, fields.timestamp>>,
                     <<<<"p", "p">>, fields.presence_proof_id>>,
                     <<<<"p", "p", "h">>, fields.presence_proof_hash>>,
                     <<<<"a", "f">>, fields.ai_flag>> >>)

---------------------------------------------------------------------------
(* signature/create.ts *)

\* the version literal "1.0"
Version10 == JsString(<<"1", ".", "0">>)

\* a ?? b
NullishCoalesce(a, b) == IF a.type \in {"undefined", "null"} THEN b ELSE a

createRealitySignature(params, privateKey) ==
    LET payloadFields ==
            [ version             |-> Version10,
              document_hash       |-> params.document_hash,
              intent_hash         |-> params.intent_hash,
              intent_text         |-> params.intent_text,
              approver_id         |-> params.approver_id,
              approver_name       |-> params.approver_name,
              timestamp           |-> params.timestamp,
              presence_proof_id   |-> params.presence_proof_id,
              presence_proof_hash |-> params.presence_proof_hash,
              ai_flag             |-> NullishCoalesce(params.ai_flag, JsBoolean(FALSE)) ]
        payload == buildSignaturePayload(payloadFields)
        signature == sign(payload, privateKey)
        publicKey == ToBase64(getPublicKey(privateKey))
    IN  [ version             |-> Version10,
          document_hash       |-> params.document_hash,
          intent_hash         |-> params.intent_hash,
          intent_text         |-> params.intent_text,
          approver_id         |-> params.approver_id,
          approver_name       |-> params.approver_name,
          timestamp           |-> params.timestamp,
          presence_proof_id   |-> params.presence_proof_id,
          presence_proof_hash |-> params.presence_proof_hash,
          ai_flag             |-> NullishCoalesce(params.ai_flag, JsBoolean(FALSE)),
          signature           |-> JsString(signature),
          public_key          |-> JsString(publicKey) ]

---------------------------------------------------------------------------
(* verification/verify.ts *)

SignatureFields ==
    {"version", "document_hash", "intent_hash", "intent_text", "approver_id",
     "approver_name", "timestamp", "presence_proof_id", "presence_proof_hash",
     "ai_flag", "signature", "public_key"}

\* a value of unknown type handed to verify: an object with its members
\* (a missing member reads as undefined), or a value that is no object
JsObject(members) == [type |-> "object", obj |-> members]
NotAnObject(type) == [type |-> type, obj |-> [f \in SignatureFields |-> JsUndefined]]

\* typeof v
TypeOf(v) == IF v.type = "null" THEN "object" ELSE v.type

\* /^[0-9a-f]{64}$/.test(s)
IsHex64(s) == Len(s) = DigestLen /\ \A i \in 1..Len(s) : s[i] \in HexChars

isValidSignatureFormat(signature) ==
    IF TypeOf(signature) # "object" \/ signature.type = "null" THEN FALSE
    ELSE LET sig == signature.obj
         IN  IF sig.version # Version10 THEN FALSE
             ELSE IF sig.document_hash.type # "string" \/ ~IsHex64(sig.document_hash.str)
             THEN FALSE
             ELSE IF sig.intent_hash.type # "string" \/ ~IsHex64(sig.intent_hash.str)
             THEN FALSE
             ELSE IF sig.intent_text.type # "string" \/ Len(sig.intent_text.str) = 0
             THEN FALSE
             ELSE IF sig.approver_id.type # "string" \/ Len(sig.approver_id.str) = 0
             THEN FALSE
             ELSE IF sig.approver_name.type # "string" \/ Len(sig.approver_name.str) = 0
             THEN FALSE
             ELSE IF \/ sig.timestamp.type # "number"
                     \/ ~NumberIsInteger(sig.timestamp)
                     \/ sig.timestamp.num <= 0
             THEN FALSE
             ELSE IF \/ sig.presence_proof_id.type # "string"
                     \/ Len(sig.presence_proof_id.str) = 0
             THEN FALSE
             ELSE IF \/ sig.presence_proof_hash.type # "string"
                     \/ ~IsHex64(sig.presence_proof_hash.str)
             THEN FALSE
             ELSE IF sig.ai_flag.type # "boolean" THEN FALSE
             ELSE IF sig.signature.type # "string" \/ Len(sig.signature.str) = 0
             THEN FALSE
             ELSE IF sig.public_key.type # "string" \/ Len(sig.public_key.str) = 0
             THEN FALSE
             ELSE TRUE

\* a VerificationResult; a member the result does not have is undefined
VerificationFailure(error, integrity, computed, expected) ==
    [ valid              |-> FALSE,
      error              |-> error,
      document_integrity |-> integrity,
      computed_hash      |-> computed,
      expected_hash      |-> expected,
      approver_id        |-> JsUndefined,
      approver_name      |-> JsUndefined,
      timestamp          |-> JsUndefined,
      ai_used            |-> JsUndefined ]

VerificationSuccess(approverId, approverName, timestamp, aiUsed) ==
    [ valid              |-> TRUE,
      error              |-> "",
      document_integrity |-> "intact",
      computed_hash      |-> JsUndefined,
      expected_hash      |-> JsUndefined,
      approver_id        |-> approverId,
      approver_name      |-> approverName,
      timestamp          |-> timestamp,
      ai_used            |-> aiUsed ]

\* mutant: an exception of the signature check is not caught
verify_CryptoErrorRaised(document, signature) ==
    IF ~isValidSignatureFormat(signature)
    THEN VerificationFailure("invalid_signature_format", "unknown",
                             JsUndefined, JsUndefined)
    ELSE IF hashDocument(document) # signature.obj.document_hash.str
    THEN VerificationFailure("document_altered", "altered",
                             JsString(hashDocument(document)),
                             signature.obj.document_hash)
    ELSE IF Ed25519Verify(FromBase64(signature.obj.signature.str),
                          Utf8(buildSignaturePayload(extractPayloadFields(signature.obj))),
                          FromBase64(signature.obj.public_key.str)) = "throw"
    THEN VerificationFailure("uncaught exception", "unknown", JsUndefined, JsUndefined)
    ELSE IF ~verifySignature(buildSignaturePayload(extractPayloadFields(signature.obj)),
                             signature.obj.signature.str,
                             signature.obj.public_key.str)
    THEN VerificationFailure("signature_not_authentic", "unknown",
                             JsUndefined, JsUndefined)
    ELSE VerificationSuccess(signature.obj.approver_id, signature.obj.approver_name,
                             signature.obj.timestamp, signature.obj.ai_flag)

\* mutant: the document is hashed and compared before the format is checked
verify_DocumentBeforeFormat(document, signature) ==
    IF hashDocument(document) # signature.obj.document_hash.str
    THEN VerificationFailure("document_altered", "altered",
                             JsString(hashDocument(document)),
                             signature.obj.document_hash)
    ELSE IF ~isValidSignatureFormat(signature)
    THEN VerificationFailure("invalid_signature_format", "unknown",
                             JsUndefined, JsUndefined)
    ELSE IF ~verifySignature(buildSignaturePayload(extractPayloadFields(signature.obj)),
                             signature.obj.signature.str,
                             signature.obj.public_key.str)
    THEN VerificationFailure("signature_not_authentic", "unknown",
                             JsUndefined, JsUndefined)
    ELSE VerificationSuccess(signature.obj.approver_id, signature.obj.approver_name,
                             signature.obj.timestamp, signature.obj.ai_flag)

\* mutant: the signature is checked before the document
verify_SignatureBeforeDocument(document, signature) ==
    IF ~isValidSignatureFormat(signature)
    THEN VerificationFailure("invalid_signature_format", "unknown",
                             JsUndefined, JsUndefined)
    ELSE IF ~verifySignature(buildSignaturePayload(extractPayloadFields(signature.obj)),
                             signature.obj.signature.str,
                             signature.obj.public_key.str)
    THEN VerificationFailure("signature_not_authentic", "unknown",
                             JsUndefined, JsUndefined)
    ELSE IF hashDocument(document) # signature.obj.document_hash.str
    THEN VerificationFailure("document_altered", "altered",
                             JsString(hashDocument(document)),
                             signature.obj.document_hash)
    ELSE VerificationSuccess(signature.obj.approver_id, signature.obj.approver_name,
                             signature.obj.timestamp, signature.obj.ai_flag)

verify(document, signature) ==
    IF ~isValidSignatureFormat(signature)
    THEN VerificationFailure("invalid_signature_format", "unknown",
                             JsUndefined, JsUndefined)
    ELSE LET sig == signature.obj
             computedHash == hashDocument(document)
         IN  IF computedHash # sig.document_hash.str
             THEN VerificationFailure("document_altered", "altered",
                                      JsString(computedHash), sig.document_hash)
             ELSE LET payloadFields == extractPayloadFields(sig)
                      payload == buildSignaturePayload(payloadFields)
                      isSignatureValid ==
                          verifySignature(payload, sig.signature.str, sig.public_key.str)
                  IN  IF ~isSignatureValid
                      THEN VerificationFailure("signature_not_authentic", "unknown",
                                               JsUndefined, JsUndefined)
                      ELSE VerificationSuccess(sig.approver_id, sig.approver_name,
                                               sig.timestamp, sig.ai_flag)

---------------------------------------------------------------------------
(* The clock *)

\* Default session expiration time: 24 hours in milliseconds
DEFAULT_EXPIRATION_MS == 24 * 60 * 60 * 1000

\* The clock readings the model samples: just after the start, and around
\* the deadline of a session created at one of those instants.
ClockPoints ==
    {StartTime + i : i \in 0..MaxSkew}
        \cup {StartTime + DEFAULT_EXPIRATION_MS + i : i \in (0 - 1)..(MaxSkew + 1)}

\* what Date.now() can return at or after instant t
Later(t) == {u \in ClockPoints : u >= t}

---------------------------------------------------------------------------
(* session/approval-session.ts *)

\* mutant: the session is created already at its deadline
createSession_NoLifetime(documentHash, documentPath, documentName, intentText, id, token, t) ==
    [ id            |-> id,
      secure_token  |-> token,
      document_hash |-> documentHash,
      document_path |-> documentPath,
      document_name |-> documentName,
      intent_text   |-> intentText,
      intent_hash   |-> hashIntent(intentText),
      status        |-> "pending",
      created_at    |-> t,
      expires_at    |-> t,
      approved_at   |-> Null,
      signature_id  |-> Null ]

createSession(documentHash, documentPath, documentName, intentText, id, token, t) ==
    [ id            |-> id,
      secure_token  |-> token,
      document_hash |-> documentHash,
      document_path |-> documentPath,
      document_name |-> documentName,
      intent_text   |-> intentText,
      intent_hash   |-> hashIntent(intentText),
      status        |-> "pending",
      created_at    |-> t,
      expires_at    |-> t + DEFAULT_EXPIRATION_MS,
      approved_at   |-> Null,
      signature_id  |-> Null ]

\* mutant: only the deadline is looked at, not the status
canApprove_StatusIgnored(session, t) ==
    IF t > session.expires_at THEN FALSE
    ELSE TRUE

\* mutant: the deadline itself is already too late
canApprove_DeadlineExcluded(session, t) ==
    IF session.status # "pending" THEN FALSE
    ELSE IF t >= session.expires_at THEN FALSE
    ELSE TRUE

\* t is what Date.now() returns inside canApprove
canApprove(session, t) ==
    IF session.status # "pending" THEN FALSE
    ELSE IF t > session.expires_at THEN FALSE
    ELSE TRUE

\* The outcome of a call that may throw: error is the message of the Error
\* thrown ("" when the call returned), value is what it returned.
Returned(v) == [error |-> "", value |-> v]
Thrown(msg, v) == [error |-> msg, value |-> v]

\* mutant: only the deadline is checked, not the status
approveSession_StatusUnchecked(session, signatureId, tCheck, tStamp) ==
    IF tCheck > session.expires_at
    THEN Thrown("SESSION_EXPIRED", session)
    ELSE Returned([session EXCEPT !.status = "approved",
                                  !.approved_at = Some(tStamp),
                                  !.signature_id = Some(signatureId)])

\* tCheck is the clock reading of canApprove, tStamp the later reading
\* stored in approved_at
approveSession(session, signatureId, tCheck, tStamp) ==
    IF ~canApprove(session, tCheck)
    THEN Thrown(IF session.status = "expired"
                THEN "SESSION_EXPIRED"
                ELSE "SESSION_ALREADY_APPROVED", session)
    ELSE Returned([session EXCEPT !.status = "approved",
                                  !.approved_at = Some(tStamp),
                                  !.signature_id = Some(signatureId)])

expireSession(session) == [session EXCEPT !.status = "expired"]

---------------------------------------------------------------------------
(* presence/presence-proof.ts *)

\* the three flags as the request sent them (any JavaScript values)
Acknowledgments(understands, authorized, knowingly) ==
    [ type                 |-> "object",
      understands_approval |-> understands,
      is_authorized        |-> authorized,
      acting_knowingly     |-> knowingly ]

\* mutant: only the first flag is looked at
validateAcknowledgments_FirstOnly(acknowledgments) ==
    Truthy(acknowledgments.understands_approval)

\* TRUE when validateAcknowledgments returns, FALSE when it throws
\* AcknowledgmentsIncompleteError
validateAcknowledgments(acknowledgments) ==
    /\ Truthy(acknowledgments.understands_approval)
    /\ Truthy(acknowledgments.is_authorized)
    /\ Truthy(acknowledgments.acting_knowingly)

\* id is what uuidv4() returns, t what Date.now() returns
createPresenceProof(sessionId, challengeResult, acknowledgments, id, t) ==
    IF ~validateAcknowledgments(acknowledgments)
    THEN Thrown("AcknowledgmentsIncompleteError", Null)
    ELSE Returned(
           [ id                     |-> id,
             session_id             |-> sessionId,
             challenge_completed    |-> challengeResult.completed,
             challenge_completed_at |-> challengeResult.completed_at,
             acknowledgments        |->
                 [ understands_approval |-> acknowledgments.understands_approval,
                   is_authorized        |-> acknowledgments.is_authorized,
                   acting_knowingly     |-> acknowledgments.acting_knowingly ],
             acknowledged_at        |-> t ])

hashPresenceProof(proof) ==
    hashString(JsonStringify(
        << <<<<"i", "d">>, JsString(proof.id)>>,
           <<<<"s", "i", "d">>, JsString(proof.session_id)>>,
           <<<<"c", "c">>, JsBoolean(proof.challenge_completed)>>,
           <<<<"c", "c", "a">>, JsNumber(proof.challenge_completed_at)>>,
           <<<<"a", "c", "k">>,
             JsNested(JsonStringify(
                 << <<<<"u", "a">>, proof.acknowledgments.understands_approval>>,
                    <<<<"i", "a">>, proof.acknowledgments.is_authorized>>,
                    <<<<"a", "k">>, proof.acknowledgments.acting_knowingly>> >>))>>,
           <<<<"a", "a">>, JsNumber(proof.acknowledged_at)>> >>))

---------------------------------------------------------------------------
(* signature/create.ts: the compact transfer format *)

serializeRealitySignature(sig) ==
    JsonStringify(<< <<<<"v">>, sig.version>>,
                     <<<<"d", "h">>, sig.document_hash>>,
                     <<<<"i", "h">>, sig.intent_hash>>,
                     <<<<"i", "t">>, sig.intent_text>>,
                     <<<<"a", "i">>, sig.approver_id>>,
                     <<<<"a", "n">>, sig.approver_name>>,
                     <<<<"t", "s">>, sig.timestamp>>,
                     <<<<"p", "p">>, sig.presence_proof_id>>,
                     <<<<"p", "p", "h">>, sig.presence_proof_hash>>,
                     <<<<"a", "f">>, sig.ai_flag>>,
                     <<<<"s", "g">>, sig.signature>>,
                     <<<<"p", "k">>, sig.public_key>> >>)

\* the member names of a record as written: the long names of
\* RealitySignature and the short keys of SerializedRealitySignature
LongKeys ==
    [ version             |-> <<"v", "e", "r", "s", "i", "o", "n">>,
      document_hash       |-> <<"d", "o", "c", "u", "m", "e", "n", "t", "_", "h", "a", "s", "h">>,
      intent_hash         |-> <<"i", "n", "t", "e", "n", "t", "_", "h", "a", "s", "h">>,
      intent_text         |-> <<"i", "n", "t", "e", "n", "t", "_", "t", "e", "x", "t">>,
      approver_id         |-> <<"a", "p", "p", "r", "o", "v", "e", "r", "_", "i", "d">>,
      approver_name       |-> <<"a", "p", "p", "r", "o", "v", "e", "r", "_", "n", "a", "m", "e">>,
      timestamp           |-> <<"t", "i", "m", "e", "s", "t", "a", "m", "p">>,
      presence_proof_id   |-> <<"p", "r", "e", "s", "e", "n", "c", "e", "_", "p", "r", "o", "o", "f", "_", "i", "d">>,
      presence_proof_hash |-> <<"p", "r", "e", "s", "e", "n", "c", "e", "_", "p", "r", "o", "o", "f", "_", "h", "a", "s", "h">>,
      ai_flag             |-> <<"a", "i", "_", "f", "l", "a", "g">>,
      signature           |-> <<"s", "i", "g", "n", "a", "t", "u", "r", "e">>,
      public_key          |-> <<"p", "u", "b", "l", "i", "c", "_", "k", "e", "y">> ]

ShortKeys ==
    [ version             |-> <<"v">>,
      document_hash       |-> <<"d", "h">>,
      intent_hash         |-> <<"i", "h">>,
      intent_text         |-> <<"i", "t">>,
      approver_id         |-> <<"a", "i">>,
      approver_name       |-> <<"a", "n">>,
      timestamp           |-> <<"t", "s">>,
      presence_proof_id   |-> <<"p", "p">>,
      presence_proof_hash |-> <<"p", "p", "h">>,
      ai_flag             |-> <<"a", "f">>,
      signature           |-> <<"s", "g">>,
      public_key          |-> <<"p", "k">> ]

\* the record whose members are read from a parsed object under these keys
\* (a member the object does not have reads as undefined)
RecordFrom(parsed, keys) == [f \in SignatureFields |-> Member(parsed, keys[f])]

\* a record none of whose members is defined
NoRecord == [f \in SignatureFields |-> JsUndefined]

\* mutant: pk is read into signature and sg into public_key
deserializeRealitySignature_KeysSwapped(json) ==
    LET parsed == JsonParse(json)
    IN  IF parsed.kind = "throw" THEN Thrown("SyntaxError", NoRecord)
        ELSE IF parsed.kind = "null" THEN Thrown("TypeError", NoRecord)
        ELSE IF Member(parsed, ShortKeys.version) # Version10
        THEN Thrown("Invalid signature version", NoRecord)
        ELSE Returned([RecordFrom(parsed, ShortKeys) EXCEPT
                          !.signature = Member(parsed, ShortKeys.public_key),
                          !.public_key = Member(parsed, ShortKeys.signature)])

deserializeRealitySignature(json) ==
    LET parsed == JsonParse(json)
    IN  IF parsed.kind = "throw" THEN Thrown("SyntaxError", NoRecord)
        ELSE IF parsed.kind = "null" THEN Thrown("TypeError", NoRecord)
        ELSE IF Member(parsed, ShortKeys.version) # Version10
        THEN Thrown("Invalid signature version", NoRecord)
        ELSE Returned(RecordFrom(parsed, ShortKeys))

\* JSON.stringify of a record: its members under their long names, in the
\* order in which createRealitySignature writes them
StringifyRecord(sig) ==
    JsonStringify(<< <<LongKeys.version, sig.version>>,
                     <<LongKeys.document_hash, sig.document_hash>>,
                     <<LongKeys.intent_hash, sig.intent_hash>>,
                     <<LongKeys.intent_text, sig.intent_text>>,
                     <<LongKeys.approver_id, sig.approver_id>>,
                     <<LongKeys.approver_name, sig.approver_name>>,
                     <<LongKeys.timestamp, sig.timestamp>>,
                     <<LongKeys.presence_proof_id, sig.presence_proof_id>>,
                     <<LongKeys.presence_proof_hash, sig.presence_proof_hash>>,
                     <<LongKeys.ai_flag, sig.ai_flag>>,
                     <<LongKeys.signature, sig.signature>>,
                     <<LongKeys.public_key, sig.public_key>> >>)

---------------------------------------------------------------------------
(* app/api/verify/route.ts *)

\* mutant: the object is always taken as it is
parseSignature_LongOnly(json) ==
    LET parsed == JsonParse(json)
    IN  IF parsed.kind = "throw" THEN Thrown("SyntaxError", NoRecord)
        ELSE IF parsed.kind = "null" THEN Thrown("TypeError", NoRecord)
        ELSE Returned(RecordFrom(parsed, LongKeys))

\* parseSignature: the compact format when the object has v and no
\* version, otherwise the object as it is
parseSignature(json) ==
    LET parsed == JsonParse(json)
    IN  IF parsed.kind = "throw" THEN Thrown("SyntaxError", NoRecord)
        ELSE IF parsed.kind = "null" THEN Thrown("TypeError", NoRecord)
        ELSE IF HasMember(parsed, ShortKeys.version) /\ ~HasMember(parsed, LongKeys.version)
        THEN Returned(RecordFrom(parsed, ShortKeys))
        ELSE Returned(RecordFrom(parsed, LongKeys))

---------------------------------------------------------------------------
(* storage/memory-store.ts and storage/file-store.ts *)

\* new MemoryStore(): a map from id to item
EmptyStore == [id \in {} |-> Null]

\* MemoryStore.get: null for undefined
StoreGet(store, id) == IF id \in DOMAIN store THEN Some(store[id]) ELSE Null

\* mutant: the item is stored under another key than its id
StoreCreate_OtherKey(store, item) ==
    IF item.id \in DOMAIN store
    THEN Thrown("Item already exists", store)
    ELSE Returned(((item.id \o <<"'">>) :> item) @@ store)

\* MemoryStore.create: throws when the id is taken
StoreCreate(store, item) ==
    IF item.id \in DOMAIN store
    THEN Thrown("Item already exists", store)
    ELSE Returned((item.id :> item) @@ store)

\* MemoryStore.update with a whole item as the updates:
\* { ...existing, ...updates, id }
StoreUpdate(store, id, updates) ==
    IF id \notin DOMAIN store
    THEN Thrown("Item not found", store)
    ELSE Returned([store EXCEPT ![id] = [updates EXCEPT !.id = id]])

\* the identifiers uuidv4() hands out: the n-th is unlike all before it
Uuid(n) == <<"u">> \o NatToString(n)

\* what Math.random().toString(36).substring(2, 10) returns
RandomSuffixes == {<<"r">>}

\* generateUniqueFilename: `${timestamp}-${random}-${filename}`
generateUniqueFilename(filename, t, random) ==
    NatToString(t) \o <<"-">> \o random \o <<"-">> \o filename

\* the relative path saveDocument returns
SavedPath(filename, t, random) ==
    <<"u", "p", "l", "o", "a", "d", "s", "/">>
        \o generateUniqueFilename(filename, t, random)

\* saveDocument: writeFileSync replaces a file of the same path
saveDocument(files, buffer, filename, t, random) ==
    (SavedPath(filename, t, random) :> buffer) @@ files

---------------------------------------------------------------------------
(* RouteSpec: the HTTP handlers of the server.  POST /api/approvals creates
   sessions; approve requests arrive, wait for their body, and are then
   handled, each handler running from the end of its last await to its
   return without interruption (a Node.js process runs one callback at a
   time).  The clock runs between the handlers and while one runs. *)

\* the instants the handlers' clock is sampled at: the start, the deadline
\* of a session created at the start, and the millisecond after it
RouteClock ==
    {StartTime, StartTime + DEFAULT_EXPIRATION_MS, StartTime + DEFAULT_EXPIRATION_MS + 1}

RouteLater(t) == {u \in RouteClock : u >= t}

\* the successive readings of Date.now() of one handler that starts at t:
\* the clock may advance while the handler runs, and the presence proof and
\* the signature are stamped in the same millisecond, that of the reading
\* before them or that of the reading after them
ClockReadings(t) ==
    {r \in [1..4 -> RouteLater(t)] :
        /\ r[1] = t
        /\ r[3] <= r[4]
        /\ r[2] = r[3]
        /\ r[3] \in {r[1], r[4]}}

\* NextResponse.json({ error: code, message }, { status })
ErrorResponse(code, status) == [status |-> status, error |-> code, body |-> <<>>]
\* NextResponse.json(JSON.parse(text), { status }): the body as sent
JsonResponse(text, status) == [status |-> status, error |-> "", body |-> text]
NoResponse == [status |-> 0, error |-> "", body |-> <<>>]
\* the text NextResponse.json writes for JSON.parse(text)
Reserialized(text) == JsonStringify(JsonParse(text).members)

\* String.prototype.toLowerCase on ASCII
ToLowerChar(c) ==
    IF c \in AsciiChars /\ CharCode[c] >= 65 /\ CharCode[c] <= 90
    THEN AsciiPrintable[CharCode[c] - 31 + 32]
    ELSE c

ToLowerCase(s) == [i \in 1..Len(s) |-> ToLowerChar(s[i])]

EndsWith(s, suffix) ==
    /\ Len(s) >= Len(suffix)
    /\ SubSeq(s, Len(s) - Len(suffix) + 1, Len(s)) = suffix

ALLOWED_TYPES ==
    {"application/pdf",
     "application/vnd.openxmlformats-officedocument.wordprocessingml.document"}

ALLOWED_EXTENSIONS == {<<".", "p", "d", "f">>, <<".", "d", "o", "c", "x">>}

MAX_FILE_SIZE == 10 * 1024 * 1024

isValidFileType(file) ==
    \/ file.type \in ALLOWED_TYPES
    \/ \E ext \in ALLOWED_EXTENSIONS : EndsWith(ToLowerCase(file.name), ext)

\* the form data of the uploads (null would be a form without a document
\* file): a PDF by its extension only
UploadFiles ==
    { Some([name |-> <<"n", ".", "P", "D", "F">>, type |-> "", bytes |-> <<97>>]) }

UploadIntents == {JsString(<<" ", "a", " ", " ", "b", "\r", "\n">>), JsString(<<" ">>)}

\* the approve request bodies
ApproverId == JsString(<<" ", "u", "-", "1">>)
ApproverName == JsString(<<"A", " ", "b">>)
AllTrue == Acknowledgments(JsBoolean(TRUE), JsBoolean(TRUE), JsBoolean(TRUE))
OneFalse == Acknowledgments(JsBoolean(TRUE), JsBoolean(FALSE), JsBoolean(TRUE))
\* acknowledgments of which one flag is false, for each of the three
SomeFalse ==
    {OneFalse,
     Acknowledgments(JsBoolean(FALSE), JsBoolean(TRUE), JsBoolean(TRUE)),
     Acknowledgments(JsBoolean(TRUE), JsBoolean(TRUE), JsBoolean(FALSE))}
NoAcknowledgments ==
    [Acknowledgments(JsUndefined, JsUndefined, JsUndefined) EXCEPT !.type = "undefined"]
UnknownId == <<"x">>

ObjectBody(approverId, approverName, acknowledgments, presenceProofId) ==
    [ kind              |-> "object",
      approver_id       |-> approverId,
      approver_name     |-> approverName,
      acknowledgments   |-> acknowledgments,
      presence_proof_id |-> presenceProofId ]

\* a body that is no JSON
InvalidJsonBody ==
    [ObjectBody(JsUndefined, JsUndefined, NoAcknowledgments, JsUndefined)
        EXCEPT !.kind = "invalid"]

\* a complete body, without a presence_proof_id or with this one
CompleteBody(presenceProofId) ==
    ObjectBody(ApproverId, ApproverName, AllTrue, presenceProofId)

\* the requests a client can send when these sessions and proofs are
\* stored: to a session, a complete body without or with a
\* presence_proof_id (of a stored proof or of none), or a body with one
\* flag false; and to a session that does not exist, a complete body or one
\* that is no JSON (which is answered before the session is looked up)
ApproveRequests(sessions, proofs) ==
    {[id |-> id, body |-> body] :
        id \in sessions,
        body \in {CompleteBody(pp) :
                     pp \in {JsUndefined, JsString(UnknownId)}
                                \cup {JsString(k) : k \in proofs}}
                  \cup {ObjectBody(ApproverId, ApproverName, ack, JsUndefined) :
                            ack \in SomeFalse}}
      \cup {[id |-> UnknownId, body |-> CompleteBody(JsUndefined)],
            [id |-> UnknownId, body |-> InvalidJsonBody]}

IdleRequest ==
    [pc |-> "idle", id |-> <<>>, body |-> InvalidJsonBody, response |-> NoResponse,
     signatureId |-> Null]

RouteIdle ==
    /\ sessionStore = EmptyStore
    /\ signatureStore = EmptyStore
    /\ presenceProofStore = EmptyStore
    /\ uploads = EmptyStore
    /\ uuidCount = 0
    /\ lastUpload = NoResponse
    /\ requests = [r \in 1..MaxRequests |-> IdleRequest]
    /\ lastVerify = Null

\* getSystemKey: without SIGNING_PRIVATE_KEY in the environment every call
\* generates a key; with it every call returns the same key, which is one
\* of the behaviours of generating
getSystemKey == PrivateKeys

---------------------------------------------------------------------------
(* VerifySpec: a record is created with createRealitySignature, up to
   MaxTampers of its members are overwritten (or the whole value replaced by
   something that is no object), and verify is called on it with a document. *)

VDocuments == {<<>>, <<97>>}
VIntents == {<<"a", "\"", "\n", "U+00E9">>}
VTimestamp == StartTime
\* the approver_id of the field set: createRealitySignature takes any string
VApproverIds == {<<"u", "-", "1">>, <<>>}

VParams(document, intent, approverId, aiFlag) ==
    [ document_hash       |-> JsString(hashDocument(document)),
      intent_hash         |-> JsString(hashIntent(intent)),
      intent_text         |-> JsString(intent),
      approver_id         |-> JsString(approverId),
      approver_name       |-> JsString(<<"A", " ", "b">>),
      timestamp           |-> JsNumber(VTimestamp),
      presence_proof_id   |-> JsString(<<"p", "-", "1">>),
      presence_proof_hash |-> JsString(hashString(<<"{", "}">>)),
      ai_flag             |-> aiFlag ]

OtherString == JsString(<<"x">>)
EmptyString == JsString(<<>>)
OtherDigest == JsString(hashString(<<"x">>))
\* 63 digits, and 64 characters of which one is an upper-case digit
ShortDigest == JsString(SubSeq(hashString(<<"x">>), 1, DigestLen - 1))
UpperDigest == JsString([hashString(<<"x">>) EXCEPT ![1] = "A"])

\* the string with its i-th character replaced by another base64 digit
AlterChar(str, i) ==
    [str EXCEPT ![i] = IF str[i] = "A" THEN "B" ELSE "A"]

\* what a member of the record sig can be overwritten with
TamperValues(field, sig) ==
    CASE field = "version" ->
            {JsString(<<"2", ".", "0">>), JsUndefined}
      [] field = "document_hash" ->
            {JsString(hashDocument(d)) : d \in VDocuments}
                \cup {ShortDigest, UpperDigest}
      [] field = "intent_hash" -> {OtherDigest, JsNumber(1)}
      [] field = "intent_text" -> {OtherString, EmptyString}
      [] field = "approver_id" -> {OtherString, EmptyString}
      [] field = "approver_name" -> {OtherString, EmptyString}
      [] field = "timestamp" ->
            {JsNumber(VTimestamp + 1), JsNumber(0), JsNumberAndHalf(VTimestamp),
             JsString(NatToString(VTimestamp))}
      [] field = "presence_proof_id" -> {OtherString, EmptyString}
      [] field = "presence_proof_hash" -> {OtherDigest, UpperDigest}
      [] field = "ai_flag" ->
            {JsBoolean(TRUE), JsBoolean(FALSE), JsNull}
      [] field = "signature" ->
            {EmptyString, JsString(<<"!">>)}
                \cup {JsString(sign(buildSignaturePayload(extractPayloadFields(sig)), k)) :
                        k \in PrivateKeys}
                \cup (IF sig.signature.type = "string" /\ Len(sig.signature.str) >= 8
                      THEN {JsString(AlterChar(sig.signature.str, 8))} ELSE {})
      [] field = "public_key" ->
            {JsString(ToBase64(getPublicKey(k))) : k \in PrivateKeys}
                \cup {EmptyString, JsString(<<"!">>)}

VerifyIdle ==
    /\ vSignature = NotAnObject("undefined")
    /\ vOrigin = Null
    /\ vTampers = 0
    /\ vDocument = <<>>
    /\ vResult = Null
    /\ vValidated = Null

(* WireSpec: a record is written as text, in the compact form or under its
   long member names, and the text is read back by
   deserializeRealitySignature or by parseSignature. *)

\* the records written: those createRealitySignature returns, and those
\* with one member overwritten
WireRecords ==
    LET created ==
            {createRealitySignature(VParams(d, it, ai, af), k) :
                d \in VDocuments, it \in VIntents, ai \in VApproverIds,
                af \in {JsBoolean(TRUE), JsUndefined}, k \in PrivateKeys}
    IN  created \cup UNION {UNION {{[r EXCEPT ![f] = v] : v \in TamperValues(f, r)} :
                                    f \in SignatureFields} : r \in created}

WireIdle ==
    /\ wRecord = NoRecord
    /\ wText = Null
    /\ wDecoded = Null

IntentIdle ==
    /\ iText = <<>>
    /\ iOther = <<>>
    /\ iEdits = 0
    /\ iResult = Null

CliIdle ==
    /\ cDocument = <<>>
    /\ cRecord = <<>>
    /\ cCli = Null
    /\ cLib = Null

---------------------------------------------------------------------------
(* SessionSpec: the session library called directly, as its unit tests do:
   one session is created and then threaded through any sequence of
   approveSession, expireSession and canApprove calls while the clock runs. *)

\* inputs of the library calls
LibDocuments == {<<97>>, <<97, 98>>}
LibIntents == {<<"a">>, <<"a", " ", " ", "b">>}
SignatureRefs == {<<"s", "1">>, <<"s", "2">>}
LibSessionId == <<"u", "1">>
LibToken == <<"u", "2">>

NoCall ==
    [op |-> "none", arg |-> Null, ref |-> Null, tCheck |-> 0, tStamp |-> 0,
     error |-> "", ret |-> Null, can |-> FALSE]

LibIdle ==
    /\ libSession = Null
    /\ libCall = NoCall

LibInit ==
    /\ now = StartTime
    /\ LibIdle
    /\ VerifyIdle
    /\ IntentIdle
    /\ CliIdle
    /\ WireIdle
    /\ RouteIdle

\* time passes between two calls
LibTick ==
    /\ \E t \in Later(now) : t # now /\ now' = t
    /\ UNCHANGED libVars
    /\ UNCHANGED <<verifyVars, wireVars, intentVars, cliVars, routeVars>>

LibCreateSession ==
    /\ libSession = Null
    /\ \E d \in LibDocuments, it \in LibIntents :
         LET s == createSession(hashDocument(d), <<"p">>, <<"n">>, it,
                                LibSessionId, LibToken, now)
         IN  /\ libSession' = Some(s)
             /\ libCall' = [NoCall EXCEPT !.op = "create", !.tCheck = now,
                                          !.tStamp = now,
                                          !.ret = Some(s)]
    /\ UNCHANGED now
    /\ UNCHANGED <<verifyVars, wireVars, intentVars, cliVars, routeVars>>

LibApproveSession ==
    /\ libSession # Null
    /\ \E ref \in SignatureRefs, tCheck \in Later(now) :
         \E tStamp \in Later(tCheck) :
           LET s == libSession[1]
               r == approveSession(s, ref, tCheck, tStamp)
           IN  /\ libCall' = [op |-> "approve", arg |-> Some(s),
                              ref |-> Some(ref), tCheck |-> tCheck,
                              tStamp |-> IF r.error = "" THEN tStamp ELSE tCheck,
                              error |-> r.error,
                              ret |-> IF r.error = "" THEN Some(r.value) ELSE Null,
                              can |-> FALSE]
               /\ libSession' = IF r.error = "" THEN Some(r.value) ELSE libSession
               /\ now' = IF r.error = "" THEN tStamp ELSE tCheck
    /\ UNCHANGED <<verifyVars, wireVars, intentVars, cliVars, routeVars>>

LibExpireSession ==
    /\ libSession # Null
    /\ LET s == libSession[1]
           r == expireSession(s)
       IN  /\ libCall' = [NoCall EXCEPT !.op = "expire", !.arg = Some(s),
                                        !.tCheck = now, !.tStamp = now,
                                        !.ret = Some(r)]
           /\ libSession' = Some(r)
    /\ UNCHANGED now
    /\ UNCHANGED <<verifyVars, wireVars, intentVars, cliVars, routeVars>>

LibCanApprove ==
    /\ libSession # Null
    /\ LET s == libSession[1]
       IN  libCall' = [NoCall EXCEPT !.op = "canApprove", !.arg = Some(s),
                                     !.tCheck = now, !.tStamp = now,
                                     !.can = canApprove(s, now)]
    /\ UNCHANGED <<now, libSession>>
    /\ UNCHANGED <<verifyVars, wireVars, intentVars, cliVars, routeVars>>

LibNext ==
    \/ LibTick
    \/ LibCreateSession
    \/ LibApproveSession
    \/ LibExpireSession
    \/ LibCanApprove

SessionSpec == LibInit /\ [][LibNext]_vars

---------------------------------------------------------------------------
(* VerifySpec actions *)

VerifyInit ==
    /\ now = StartTime
    /\ LibIdle
    /\ VerifyIdle
    /\ IntentIdle
    /\ CliIdle
    /\ WireIdle
    /\ RouteIdle

\* createRealitySignature(fields, key) for a document's field set
VCreate ==
    /\ vOrigin = Null
    /\ \E d \in VDocuments, it \in VIntents, ai \in VApproverIds, k \in PrivateKeys,
          af \in {JsBoolean(TRUE), JsBoolean(FALSE), JsUndefined} :
         /\ vSignature' = JsObject(createRealitySignature(VParams(d, it, ai, af), k))
         /\ vOrigin' = Some([document |-> d, privateKey |-> k])
    /\ vResult' = Null
    /\ UNCHANGED <<vTampers, vDocument, vValidated>>
    /\ UNCHANGED <<now, libVars, wireVars, intentVars, cliVars, routeVars>>

\* one member of the record is overwritten
VTamper ==
    /\ vOrigin # Null
    /\ vSignature.type = "object"
    /\ vTampers < MaxTampers
    /\ \E f \in SignatureFields :
         \E v \in TamperValues(f, vSignature.obj) :
           /\ v # vSignature.obj[f]
           /\ vSignature' = [vSignature EXCEPT !.obj[f] = v]
    /\ vTampers' = vTampers + 1
    /\ vResult' = Null
    /\ UNCHANGED <<vOrigin, vDocument, vValidated>>
    /\ UNCHANGED <<now, libVars, wireVars, intentVars, cliVars, routeVars>>

\* the record is replaced by a value that is no object
VReplace ==
    /\ vOrigin # Null
    /\ vSignature.type = "object"
    /\ vTampers < MaxTampers
    /\ \E t \in {"null", "string", "number"} : vSignature' = NotAnObject(t)
    /\ vTampers' = vTampers + 1
    /\ vResult' = Null
    /\ UNCHANGED <<vOrigin, vDocument, vValidated>>
    /\ UNCHANGED <<now, libVars, wireVars, intentVars, cliVars, routeVars>>

\* verify(document, record)
VVerify ==
    /\ \E d \in VDocuments :
         LET result == verify(d, vSignature)
         IN  /\ vDocument' = d
             /\ vResult' = Some(result)
             /\ vValidated' = IF result.valid /\ vValidated = Null
                              THEN Some([document |-> d, signature |-> vSignature.obj])
                              ELSE vValidated
    /\ UNCHANGED <<vSignature, vOrigin, vTampers>>
    /\ UNCHANGED <<now, libVars, wireVars, intentVars, cliVars, routeVars>>

VerifyNext ==
    \/ VCreate
    \/ VTamper
    \/ VReplace
    \/ VVerify

VerifySpec == VerifyInit /\ [][VerifyNext]_vars

---------------------------------------------------------------------------
(* WireSpec actions *)

WireInit ==
    /\ now = StartTime
    /\ LibIdle
    /\ VerifyIdle
    /\ IntentIdle
    /\ CliIdle
    /\ RouteIdle
    /\ wRecord \in WireRecords
    /\ wText = Null
    /\ wDecoded = Null

\* serializeRealitySignature(record), or JSON.stringify(record)
WSerialize ==
    /\ \E form \in {"compact", "long"} :
         wText' = Some([ form |-> form,
                         json |-> IF form = "compact"
                                  THEN serializeRealitySignature(wRecord)
                                  ELSE StringifyRecord(wRecord) ])
    /\ wDecoded' = Null
    /\ UNCHANGED wRecord
    /\ UNCHANGED <<now, libVars, verifyVars, intentVars, cliVars, routeVars>>

\* deserializeRealitySignature(text), or parseSignature(text)
WDeserialize ==
    /\ wText # Null
    /\ \E reader \in {"deserializeRealitySignature", "parseSignature"} :
         wDecoded' = Some([ reader |-> reader,
                            out    |-> IF reader = "parseSignature"
                                       THEN parseSignature(wText[1].json)
                                       ELSE deserializeRealitySignature(wText[1].json) ])
    /\ UNCHANGED <<wRecord, wText>>
    /\ UNCHANGED <<now, libVars, verifyVars, intentVars, cliVars, routeVars>>

WireNext ==
    \/ WSerialize
    \/ WDeserialize

WireSpec == WireInit /\ [][WireNext]_vars

---------------------------------------------------------------------------
(* IntentSpec: an intent text is written in another way that leaves the
   intent the same (other spaces and tabs, other line endings, another
   Unicode representation), and both texts are canonicalized and hashed. *)

IntentAlphabet == {"a", " ", "\t", "\n", "\r", "e", "U+0301"}

IntentTexts == UNION {[1..n -> IntentAlphabet] : n \in 0..MaxTextLen}

Blanks == {" ", "\t"}

\* text with its characters i..j replaced by mid
Splice(text, i, j, mid) ==
    SubSeq(text, 1, i - 1) \o mid \o SubSeq(text, j + 1, Len(text))

\* a line terminator (\r\n, \r or \n) starts at i / ends at i
TerminatorStartsAt(text, i) ==
    \/ text[i] = "\r"
    \/ text[i] = "\n" /\ (i = 1 \/ text[i - 1] # "\r")
TerminatorEndsAt(text, i) ==
    \/ text[i] = "\n"
    \/ text[i] = "\r" /\ (i = Len(text) \/ text[i + 1] # "\n")

\* a space for a tab or a tab for a space
OtherBlankKind(text) ==
    {Splice(text, i, i, <<b>>) : i \in {k \in 1..Len(text) : text[k] \in Blanks},
                                 b \in Blanks}

\* one more space or tab where there is one
MoreBlanks(text) ==
    {Splice(text, i, i, <<text[i], b>>) :
        i \in {k \in 1..Len(text) : text[k] \in Blanks}, b \in Blanks}

\* whitespace before or after the text
LeadingOrTrailing(text) ==
    {<<w>> \o text : w \in Blanks \cup {"\n"}}
        \cup {text \o <<w>> : w \in Blanks \cup {"\n"}}

\* a space or tab at the end or at the start of a line
BlankAtLineBreak(text) ==
    {Splice(text, i, i, <<b, text[i]>>) :
        i \in {k \in 1..Len(text) : TerminatorStartsAt(text, k)}, b \in Blanks}
      \cup {Splice(text, i, i, <<text[i], b>>) :
               i \in {k \in 1..Len(text) : TerminatorEndsAt(text, k)}, b \in Blanks}

\* one line terminator written in another style
OtherLineEnding(text) ==
    LET n == Len(text)
        lone(i) == /\ TerminatorStartsAt(text, i) /\ TerminatorEndsAt(text, i)
                   /\ (i = 1 \/ text[i - 1] # "\r")
                   /\ (i = n \/ text[i + 1] # "\n")
    IN  {Splice(text, i, i, <<"\r", "\n">>) : i \in {k \in 1..n : lone(k)}}
          \cup {Splice(text, i, i, <<IF text[i] = "\n" THEN "\r" ELSE "\n">>) :
                   i \in {k \in 1..n : lone(k)}}
          \cup {Splice(text, i, i + 1, <<t>>) :
                   i \in {k \in 1..(n - 1) :
                             /\ text[k] = "\r" /\ text[k + 1] = "\n"
                             /\ (k = 1 \/ text[k - 1] # "\r")
                             /\ (k + 1 = n \/ text[k + 2] # "\n")},
                   t \in {"\n", "\r"}}

\* e with an acute accent as one code point or as two
OtherUnicodeForm(text) ==
    {Splice(text, i, i + 1, <<"U+00E9">>) :
        i \in {k \in 1..(Len(text) - 1) : text[k] = "e" /\ text[k + 1] = "U+0301"}}
      \cup {Splice(text, i, i, <<"e", "U+0301">>) :
               i \in {k \in 1..Len(text) : text[k] = "U+00E9"}}

\* the texts one rewriting away
Rewritings(text) ==
    OtherBlankKind(text) \cup MoreBlanks(text) \cup LeadingOrTrailing(text)
        \cup BlankAtLineBreak(text) \cup OtherLineEnding(text)
        \cup OtherUnicodeForm(text)

IntentInit ==
    /\ now = StartTime
    /\ LibIdle
    /\ VerifyIdle
    /\ WireIdle
    /\ CliIdle
    /\ RouteIdle
    /\ iText \in IntentTexts
    /\ iOther = iText
    /\ iEdits = 0
    /\ iResult = Null

\* the text is written differently
IRewrite ==
    /\ iResult = Null
    /\ iEdits < MaxEdits
    /\ \E text \in Rewritings(iOther) : iOther' = text
    /\ iEdits' = iEdits + 1
    /\ UNCHANGED <<iText, iResult>>
    /\ UNCHANGED <<now, libVars, verifyVars, wireVars, cliVars, routeVars>>

\* canonicalizeIntent and hashIntent of both texts, and canonicalizeIntent
\* of what canonicalizeIntent returned
ICanonicalize ==
    /\ iResult = Null
    /\ iResult' = Some([ text       |-> canonicalizeIntent(iText),
                         other      |-> canonicalizeIntent(iOther),
                         again      |-> canonicalizeIntent(canonicalizeIntent(iText)),
                         otherAgain |-> canonicalizeIntent(canonicalizeIntent(iOther)),
                         hash       |-> hashIntent(iText),
                         otherHash  |-> hashIntent(iOther) ])
    /\ UNCHANGED <<iText, iOther, iEdits>>
    /\ UNCHANGED <<now, libVars, verifyVars, wireVars, cliVars, routeVars>>

IntentNext ==
    \/ IRewrite
    \/ ICanonicalize

IntentSpec == IntentInit /\ [][IntentNext]_vars

---------------------------------------------------------------------------
(* cli/verify.ts: the standalone verifier *)

\* isValidHex64(str)
cliIsValidHex64(value) == value.type = "string" /\ IsHex64(value.str)

\* validateSignatureFormat(sig), sig being what JSON.parse returned
cliValidateSignatureFormat(parsed) ==
    IF parsed.kind # "object" THEN FALSE
    ELSE /\ Member(parsed, <<"v">>) = Version10
         /\ cliIsValidHex64(Member(parsed, <<"d", "h">>))
         /\ cliIsValidHex64(Member(parsed, <<"i", "h">>))
         /\ Member(parsed, <<"i", "t">>).type = "string"
         /\ Member(parsed, <<"a", "i">>).type = "string"
         /\ Member(parsed, <<"a", "n">>).type = "string"
         /\ Member(parsed, <<"t", "s">>).type = "number"
         /\ Member(parsed, <<"p", "p">>).type = "string"
         /\ cliIsValidHex64(Member(parsed, <<"p", "p", "h">>))
         /\ Member(parsed, <<"a", "f">>).type = "boolean"
         /\ Member(parsed, <<"s", "g">>).type = "string"
         /\ Member(parsed, <<"p", "k">>).type = "string"

\* buildPayload(sig)
cliBuildPayload(parsed) ==
    JsonStringify(<< <<<<"v">>, Member(parsed, <<"v">>)>>,
                     <<<<"d", "h">>, Member(parsed, <<"d", "h">>)>>,
                     <<<<"i", "h">>, Member(parsed, <<"i", "h">>)>>,
                     <<<<"i", "t">>, Member(parsed, <<"i", "t">>)>>,
                     <<<<"a", "i">>, Member(parsed, <<"a", "i">>)>>,
                     <<<<"a", "n">>, Member(parsed, <<"a", "n">>)>>,
                     <<<<"t", "s">>, Member(parsed, <<"t", "s">>)>>,
                     <<<<"p", "p">>, Member(parsed, <<"p", "p">>)>>,
                     <<<<"p", "p", "h">>, Member(parsed, <<"p", "p", "h">>)>>,
                     <<<<"a", "f">>, Member(parsed, <<"a", "f">>)>> >>)

\* verifySignature(payload, signature, publicKey): any exception is a false
cliVerifySignature(payload, signature, publicKey) ==
    Ed25519Verify(FromBase64(signature), Utf8(payload), FromBase64(publicKey)) = "true"

\* a VerificationResult of the standalone verifier (details.timestamp, an
\* ISO date string, is left out)
CliResult(valid, documentIntegrity, signatureValidity, formatValid, error, details) ==
    [ valid   |-> valid,
      checks  |-> [ document_integrity |-> documentIntegrity,
                    signature_validity |-> signatureValidity,
                    format_valid       |-> formatValid ],
      details |-> details,
      error   |-> error ]

\* verify(documentPath, signaturePath) for a readable document with these
\* bytes and a readable signature file with this text
cliVerify(documentBuffer, sigContent) ==
    LET signatureJson == JsonParse(sigContent)
    IN  IF signatureJson.kind = "throw"
        THEN CliResult(FALSE, "fail", "fail", "fail",
                       "Cannot read or parse signature", Null)
        ELSE IF ~cliValidateSignatureFormat(signatureJson)
        THEN CliResult(FALSE, "fail", "fail", "fail", "Invalid signature format", Null)
        ELSE LET computedHash == hashDocument(documentBuffer)
                 documentIntegrity ==
                     IF computedHash = Member(signatureJson, <<"d", "h">>).str
                     THEN "pass" ELSE "fail"
                 payload == cliBuildPayload(signatureJson)
                 signatureValid ==
                     cliVerifySignature(payload, Member(signatureJson, <<"s", "g">>).str,
                                        Member(signatureJson, <<"p", "k">>).str)
                 signatureValidity == IF signatureValid THEN "pass" ELSE "fail"
                 valid == documentIntegrity = "pass" /\ signatureValidity = "pass"
             IN  CliResult(valid, documentIntegrity, signatureValidity, "pass",
                           IF valid THEN ""
                           ELSE IF documentIntegrity = "fail"
                           THEN "Document has been altered"
                           ELSE "Signature is not authentic",
                           Some([ approver_id   |-> Member(signatureJson, <<"a", "i">>),
                                  approver_name |-> Member(signatureJson, <<"a", "n">>),
                                  intent        |-> Member(signatureJson, <<"i", "t">>),
                                  ai_used       |-> Member(signatureJson, <<"a", "f">>) ]))

(* CliSpec: a document and a compact-format record are handed to the
   standalone verifier and, the record under its long member names, to the
   library's verify. *)

\* the texts of signature.json: the records createRealitySignature returns
\* and those with one member overwritten, in the compact format
CliRecords == {serializeRealitySignature(r) : r \in WireRecords}

CliInit ==
    /\ now = StartTime
    /\ LibIdle
    /\ VerifyIdle
    /\ WireIdle
    /\ IntentIdle
    /\ RouteIdle
    /\ cDocument \in VDocuments
    /\ cRecord \in CliRecords
    /\ cCli = Null
    /\ cLib = Null

\* npx ts-node cli/verify.ts <document> <signature.json>
CliVerify ==
    /\ cCli = Null
    /\ cCli' = Some(cliVerify(cDocument, cRecord))
    /\ UNCHANGED <<cDocument, cRecord, cLib>>
    /\ UNCHANGED <<now, libVars, verifyVars, wireVars, intentVars, routeVars>>

\* verify(document, record) of the library, the record read by parseSignature
LibVerify ==
    /\ cLib = Null
    /\ LET parsed == parseSignature(cRecord)
       IN  cLib' = Some(IF parsed.error # ""
                        THEN VerificationFailure("invalid_signature_format", "unknown",
                                                 JsUndefined, JsUndefined)
                        ELSE verify(cDocument, JsObject(parsed.value)))
    /\ UNCHANGED <<cDocument, cRecord, cCli>>
    /\ UNCHANGED <<now, libVars, verifyVars, wireVars, intentVars, routeVars>>

CliNext ==
    \/ CliVerify
    \/ LibVerify

CliSpec == CliInit /\ [][CliNext]_vars

---------------------------------------------------------------------------
(* RouteSpec actions *)

RouteInit ==
    /\ now = StartTime
    /\ LibIdle
    /\ VerifyIdle
    /\ IntentIdle
    /\ CliIdle
    /\ WireIdle
    /\ sessionStore = EmptyStore
    /\ signatureStore = EmptyStore
    /\ presenceProofStore = EmptyStore
    /\ uploads = EmptyStore
    /\ uuidCount = 0
    /\ lastUpload = NoResponse
    /\ requests = [r \in 1..MaxRequests |-> IdleRequest]
    /\ lastVerify = Null

\* mutant: the session is created with the intent as it was posted
CreateApprovalPOST_RawIntent(file, intent, t, random) ==
    LET rejected(code) ==
            [response |-> ErrorResponse(code, 400), sessions |-> sessionStore,
             files |-> uploads, uuids |-> uuidCount]
    IN  IF file = Null THEN rejected("INVALID_FILE")
        ELSE IF ~Truthy(intent) \/ intent.type # "string" \/ Trim(intent.str) = <<>>
        THEN rejected("INVALID_INTENT")
        ELSE IF ~isValidFileType(file[1]) THEN rejected("INVALID_FILE_TYPE")
        ELSE IF Len(file[1].bytes) > MAX_FILE_SIZE THEN rejected("FILE_TOO_LARGE")
        ELSE LET documentHash == hashDocument(file[1].bytes)
                 documentPath == SavedPath(file[1].name, t, random)
                 session == createSession(documentHash, documentPath, file[1].name,
                                          intent.str,
                                          Uuid(uuidCount + 1), Uuid(uuidCount + 2), t)
                 created == StoreCreate(sessionStore, session)
             IN  [response |->
                      IF created.error # ""
                      THEN ErrorResponse("INTERNAL_ERROR", 500)
                      ELSE JsonResponse(
                               JsonStringify(
                                   << <<<<"s", "e", "s", "s", "i", "o", "n", "_", "i", "d">>,
                                        JsString(session.id)>>,
                                      <<<<"s", "e", "c", "u", "r", "e", "_", "t", "o", "k", "e", "n">>,
                                        JsString(session.secure_token)>>,
                                      <<<<"d", "o", "c", "u", "m", "e", "n", "t", "_", "h", "a", "s", "h">>,
                                        JsString(documentHash)>> >>), 201),
                  sessions |-> created.value,
                  files |-> saveDocument(uploads, file[1].bytes, file[1].name, t, random),
                  uuids |-> uuidCount + 2]

\* POST /api/approvals (route.ts): what the handler answers and stores for a
\* form with this file and intent; t is what Date.now() returns
CreateApprovalPOST(file, intent, t, random) ==
    LET rejected(code) ==
            [response |-> ErrorResponse(code, 400), sessions |-> sessionStore,
             files |-> uploads, uuids |-> uuidCount]
    IN  IF file = Null THEN rejected("INVALID_FILE")
        ELSE IF ~Truthy(intent) \/ intent.type # "string" \/ Trim(intent.str) = <<>>
        THEN rejected("INVALID_INTENT")
        ELSE IF ~isValidFileType(file[1]) THEN rejected("INVALID_FILE_TYPE")
        ELSE IF Len(file[1].bytes) > MAX_FILE_SIZE THEN rejected("FILE_TOO_LARGE")
        ELSE LET documentHash == hashDocument(file[1].bytes)
                 documentPath == SavedPath(file[1].name, t, random)
                 session == createSession(documentHash, documentPath, file[1].name,
                                          canonicalizeIntent(intent.str),
                                          Uuid(uuidCount + 1), Uuid(uuidCount + 2), t)
                 created == StoreCreate(sessionStore, session)
             IN  [response |->
                      IF created.error # ""
                      THEN ErrorResponse("INTERNAL_ERROR", 500)
                      ELSE JsonResponse(
                               JsonStringify(
                                   << <<<<"s", "e", "s", "s", "i", "o", "n", "_", "i", "d">>,
                                        JsString(session.id)>>,
                                      <<<<"s", "e", "c", "u", "r", "e", "_", "t", "o", "k", "e", "n">>,
                                        JsString(session.secure_token)>>,
                                      <<<<"d", "o", "c", "u", "m", "e", "n", "t", "_", "h", "a", "s", "h">>,
                                        JsString(documentHash)>> >>), 201),
                  sessions |-> created.value,
                  files |-> saveDocument(uploads, file[1].bytes, file[1].name, t, random),
                  uuids |-> uuidCount + 2]

CreateApproval ==
    /\ Cardinality(DOMAIN sessionStore) < MaxSessions
    /\ \E file \in UploadFiles, intent \in UploadIntents, random \in RandomSuffixes :
         LET out == CreateApprovalPOST(file, intent, now, random)
         IN  /\ lastUpload' = out.response
             /\ sessionStore' = out.sessions
             /\ uploads' = out.files
             /\ uuidCount' = out.uuids
    /\ UNCHANGED <<now, signatureStore, presenceProofStore, requests, lastVerify>>
    /\ UNCHANGED <<libVars, verifyVars, wireVars, intentVars, cliVars>>

\* an approve request arrives; its handler waits for the body
ApproveReceive(r) ==
    /\ requests[r].pc = "idle"
    /\ IF r = 1 THEN TRUE ELSE requests[r - 1].pc # "idle"
    /\ \E req \in ApproveRequests(DOMAIN sessionStore, DOMAIN presenceProofStore) :
         requests' = [requests EXCEPT ![r] = [IdleRequest EXCEPT !.pc = "awaiting",
                                                                !.id = req.id,
                                                                !.body = req.body]]
    /\ UNCHANGED <<now, sessionStore, signatureStore, presenceProofStore, uploads,
                   uuidCount, lastUpload, lastVerify>>
    /\ UNCHANGED <<libVars, verifyVars, wireVars, intentVars, cliVars>>

\* POST /api/approvals/[id]/approve from the end of `await request.json()`
\* to its return: what the handler answers and stores.  privateKey is the
\* key getSystemKey returns; t[1] is the clock reading of the canApprove
\* check, t[2] that of the presence proof, t[3] the signature's timestamp
\* and t[4] that of approveSession; reads tells how many of them were taken.
ApprovePOST(id, body, privateKey, t) ==
    LET answer(resp, proofs, signatures, uuids, reads) ==
            [response |-> resp, sessions |-> sessionStore,
             signatures |-> signatures, proofs |-> proofs,
             uuids |-> uuids, reads |-> reads, signatureId |-> Null]
        rejected(code, status, reads) ==
            answer(ErrorResponse(code, status), presenceProofStore, signatureStore,
                   uuidCount, reads)
        found == StoreGet(sessionStore, id)
        session == found[1]
        \* Create or use existing presence proof
        createsProof == ~Truthy(body.presence_proof_id)
        created == createPresenceProof(session.id,
                                       [completed |-> TRUE, completed_at |-> t[2]],
                                       body.acknowledgments, Uuid(uuidCount + 1), t[2])
        proofsCreated == StoreCreate(presenceProofStore, created.value)
        existing == IF body.presence_proof_id.type = "string"
                    THEN StoreGet(presenceProofStore, body.presence_proof_id.str)
                    ELSE Null
        proof == IF createsProof THEN created.value ELSE existing[1]
        proofs == IF createsProof THEN proofsCreated.value ELSE presenceProofStore
        uuidsAfterProof == IF createsProof THEN uuidCount + 1 ELSE uuidCount
        realitySignature ==
            createRealitySignature(
                [ document_hash       |-> JsString(session.document_hash),
                  intent_hash         |-> JsString(session.intent_hash),
                  intent_text         |-> JsString(session.intent_text),
                  approver_id         |-> JsString(Trim(body.approver_id.str)),
                  approver_name       |-> JsString(Trim(body.approver_name.str)),
                  timestamp           |-> JsNumber(t[3]),
                  presence_proof_id   |-> IF createsProof THEN JsString(proof.id)
                                          ELSE body.presence_proof_id,
                  presence_proof_hash |-> JsString(hashPresenceProof(proof)),
                  ai_flag             |-> JsBoolean(FALSE) ],
                privateKey)
        signatureId == Uuid(uuidsAfterProof + 1)
        signatures ==
            StoreCreate(signatureStore, [id |-> signatureId] @@ realitySignature)
        approved == approveSession(session, signatureId, t[4], t[4])
        updated == StoreUpdate(sessionStore, session.id, approved.value)
    IN  IF body.kind = "invalid" THEN rejected("INVALID_JSON", 400, 0)
        \* destructuring null throws a TypeError
        ELSE IF body.kind = "null" THEN rejected("INTERNAL_ERROR", 500, 0)
        ELSE IF \/ ~Truthy(body.approver_id)
                \/ body.approver_id.type # "string"
                \/ Trim(body.approver_id.str) = <<>>
        THEN rejected("INVALID_APPROVER_ID", 400, 0)
        ELSE IF \/ ~Truthy(body.approver_name)
                \/ body.approver_name.type # "string"
                \/ Trim(body.approver_name.str) = <<>>
        THEN rejected("INVALID_APPROVER_NAME", 400, 0)
        ELSE IF body.acknowledgments.type # "object"
        THEN rejected("INVALID_ACKNOWLEDGMENTS", 400, 0)
        ELSE IF found = Null THEN rejected("SESSION_NOT_FOUND", 404, 0)
        ELSE IF ~canApprove(session, t[1])
        THEN IF session.status = "expired" \/ t[1] > session.expires_at
             THEN rejected("SESSION_EXPIRED", 400, 1)
             ELSE IF session.status = "approved"
             THEN rejected("SESSION_ALREADY_APPROVED", 400, 1)
             ELSE rejected("SESSION_CANNOT_APPROVE", 400, 1)
        ELSE IF ~validateAcknowledgments(body.acknowledgments)
        THEN rejected("ACKNOWLEDGMENTS_INCOMPLETE", 400, 1)
        ELSE IF createsProof /\ (created.error # "" \/ proofsCreated.error # "")
        THEN rejected("INTERNAL_ERROR", 500, 2)
        ELSE IF ~createsProof /\ existing = Null
        THEN rejected("PRESENCE_PROOF_NOT_FOUND", 400, 1)
        ELSE IF signatures.error # ""
        THEN answer(ErrorResponse("INTERNAL_ERROR", 500), proofs, signatureStore,
                    uuidsAfterProof + 1, 3)
        ELSE IF approved.error # ""
        \* the catch block: the proof and the signature stay stored
        THEN answer(ErrorResponse(approved.error, 400), proofs, signatures.value,
                    uuidsAfterProof + 1, 4)
        ELSE IF updated.error # ""
        THEN answer(ErrorResponse("INTERNAL_ERROR", 500), proofs, signatures.value,
                    uuidsAfterProof + 1, 4)
        ELSE [response |-> JsonResponse(
                               Reserialized(serializeRealitySignature(realitySignature)), 200),
              sessions |-> updated.value, signatures |-> signatures.value,
              proofs |-> proofs, uuids |-> uuidsAfterProof + 1,
              reads |-> 4, signatureId |-> Some(signatureId)]

\* the body has arrived: the handler runs to its return
ApproveHandle(r) ==
    /\ requests[r].pc = "awaiting"
    /\ \E privateKey \in getSystemKey, t \in ClockReadings(now) :
         LET out == ApprovePOST(requests[r].id, requests[r].body, privateKey, t)
         IN  /\ requests' = [requests EXCEPT ![r].pc = "done",
                                             ![r].response = out.response,
                                             ![r].signatureId = out.signatureId]
             /\ sessionStore' = out.sessions
             /\ signatureStore' = out.signatures
             /\ presenceProofStore' = out.proofs
             /\ uuidCount' = out.uuids
             /\ now' = IF out.reads = 0 THEN now ELSE t[out.reads]
    /\ UNCHANGED <<uploads, lastUpload, lastVerify>>
    /\ UNCHANGED <<libVars, verifyVars, wireVars, intentVars, cliVars>>

\* mutant: only a record found among the stored signatures is reported valid
VerifyPOST_StoredOnly(documentFile, signatureData) ==
    LET failed(code) == [status |-> 400, error |-> code,
                         result |-> VerificationFailure("", "", JsUndefined, JsUndefined)]
        parsed == parseSignature(signatureData.str)
        result == verify(documentFile[1].bytes, JsObject(parsed.value))
    IN  IF documentFile = Null THEN failed("INVALID_FILE")
        ELSE IF ~Truthy(signatureData) THEN failed("INVALID_SIGNATURE")
        ELSE IF signatureData.type # "string" THEN failed("INVALID_SIGNATURE")
        ELSE IF parsed.error # ""
        THEN [status |-> 200, error |-> "",
              result |-> VerificationFailure("invalid_signature_format", "unknown",
                                             JsUndefined, JsUndefined)]
        ELSE IF result.valid /\ \A s \in DOMAIN signatureStore :
                                    signatureStore[s].signature # parsed.value.signature
        THEN [status |-> 200, error |-> "",
              result |-> VerificationFailure("signature_not_authentic", "intact",
                                             JsUndefined, JsUndefined)]
        ELSE [status |-> 200, error |-> "", result |-> result]

\* POST /api/verify with a document file and the signature as a form
\* field: what the handler answers (result is the body, before it is
\* written as JSON)
VerifyPOST(documentFile, signatureData) ==
    LET failed(code) == [status |-> 400, error |-> code,
                         result |-> VerificationFailure("", "", JsUndefined, JsUndefined)]
        parsed == parseSignature(signatureData.str)
    IN  IF documentFile = Null THEN failed("INVALID_FILE")
        ELSE IF ~Truthy(signatureData) THEN failed("INVALID_SIGNATURE")
        ELSE IF signatureData.type # "string" THEN failed("INVALID_SIGNATURE")
        ELSE IF parsed.error # ""
        THEN [status |-> 200, error |-> "",
              result |-> VerificationFailure("invalid_signature_format", "unknown",
                                             JsUndefined, JsUndefined)]
        ELSE [status |-> 200, error |-> "",
              result |-> verify(documentFile[1].bytes, JsObject(parsed.value))]

\* a client that was returned a signature has it verified, as returned,
\* against the document it uploaded for the session
VerifyReturned(r) ==
    /\ requests[r].pc = "done"
    /\ requests[r].response.status = 200
    /\ LET session == sessionStore[requests[r].id]
           file == Some([name |-> session.document_name, type |-> "",
                         bytes |-> uploads[session.document_path]])
       IN  lastVerify' = Some([request   |-> r,
                               file      |-> file,
                               signature |-> JsString(requests[r].response.body),
                               document  |-> file[1].bytes,
                               response  |-> VerifyPOST(file, JsString(requests[r].response.body))])
    /\ UNCHANGED <<now, sessionStore, signatureStore, presenceProofStore, uploads,
                   uuidCount, lastUpload, requests>>
    /\ UNCHANGED <<libVars, verifyVars, wireVars, intentVars, cliVars>>

\* a record that no approve request issued, in the compact form
ForeignRecord ==
    serializeRealitySignature(
        createRealitySignature(
            VParams(<<97>>, <<"a">>, <<"u", "-", "1">>, JsBoolean(FALSE)), <<1>>))

\* the forms a client can post to /api/verify: without a document file or
\* with one, and with no signature field, with text that is no JSON, with
\* a record made elsewhere or with a signature an approve request returned
VerifyFiles ==
    {Null} \cup {Some([name |-> <<"n", ".", "p", "d", "f">>, type |-> "", bytes |-> b]) :
                    b \in {<<97>>, <<98>>}}

VerifyFields ==
    {JsUndefined, JsString(<<"{">>), JsString(ForeignRecord)}
        \cup {JsString(requests[r].response.body) :
                 r \in {k \in 1..MaxRequests : /\ requests[k].pc = "done"
                                                /\ requests[k].response.status = 200}}

\* POST /api/verify with any form
VerifyPosted ==
    /\ \E documentFile \in VerifyFiles, signatureData \in VerifyFields :
         lastVerify' = Some([request   |-> 0,
                             file      |-> documentFile,
                             signature |-> signatureData,
                             document  |-> IF documentFile = Null THEN <<>>
                                           ELSE documentFile[1].bytes,
                             response  |-> VerifyPOST(documentFile, signatureData)])
    /\ UNCHANGED <<now, sessionStore, signatureStore, presenceProofStore, uploads,
                   uuidCount, lastUpload, requests>>
    /\ UNCHANGED <<libVars, verifyVars, wireVars, intentVars, cliVars>>

\* time passes between two handlers
RouteTick ==
    /\ \E t \in RouteLater(now) : t # now /\ now' = t
    /\ UNCHANGED routeVars
    /\ UNCHANGED <<libVars, verifyVars, wireVars, intentVars, cliVars>>

RouteNext ==
    \/ CreateApproval
    \/ \E r \in 1..MaxRequests : ApproveReceive(r)
    \/ \E r \in 1..MaxRequests : ApproveHandle(r)
    \/ \E r \in 1..MaxRequests : VerifyReturned(r)
    \/ RouteTick

RouteSpec == RouteInit /\ [][RouteNext]_vars

(* VerifyRouteSpec: one client has a session created and approved, one
   request at a time, while /api/verify is posted any form at any moment. *)

VerifyRouteNext ==
    \/ CreateApproval
    \/ ApproveReceive(1)
    \/ ApproveHandle(1)
    \/ VerifyPosted
    \/ RouteTick

VerifyRouteSpec == RouteInit /\ [][VerifyRouteNext]_vars

---------------------------------------------------------------------------
(* Claims about the approve route (checked under RouteSpec) *)

\* a body with valid approver fields and all three acknowledgments true
HasValidFields(body) ==
    /\ body.kind = "object"
    /\ body.approver_id.type = "string" /\ Trim(body.approver_id.str) # <<>>
    /\ body.approver_name.type = "string" /\ Trim(body.approver_name.str) # <<>>
    /\ body.acknowledgments.type = "object"
    /\ body.acknowledgments.understands_approval = JsBoolean(TRUE)
    /\ body.acknowledgments.is_authorized = JsBoolean(TRUE)
    /\ body.acknowledgments.acting_knowingly = JsBoolean(TRUE)

\* the body names no presence proof, or names a stored one
NamesNoMissingProof(body) ==
    \/ body.presence_proof_id.type \in {"undefined", "null"}
    \/ /\ body.presence_proof_id.type = "string"
       /\ body.presence_proof_id.str \in DOMAIN presenceProofStore \cup {<<>>}

ValidAndNamesNoMissingProof(body) == HasValidFields(body) /\ NamesNoMissingProof(body)

\* the answered requests for session sid whose bodies satisfy Accepts
Attempts(sid, Accepts(_)) ==
    {r \in 1..MaxRequests :
        /\ requests[r].pc = "done"
        /\ requests[r].id = sid
        /\ Accepts(requests[r].body)}

\* of these answered requests for session sid exactly one succeeded and
\* returned the signature it stored, every other was rejected, and the
\* session is approved with the signature of the one that succeeded
ExactlyOneApproved(sid, attempts) ==
    LET winners == {r \in attempts : requests[r].response.status = 200}
    IN  /\ Cardinality(winners) = 1
        /\ \A r \in attempts \ winners :
              /\ requests[r].response.status >= 400
              /\ requests[r].response.error # ""
              /\ requests[r].signatureId = Null
        /\ sessionStore[sid].status = "approved"
        /\ \A w \in winners :
              /\ requests[w].signatureId # Null
              /\ sessionStore[sid].signature_id = requests[w].signatureId
              /\ requests[w].signatureId[1] \in DOMAIN signatureStore
              /\ requests[w].response.body
                    = serializeRealitySignature(signatureStore[requests[w].signatureId[1]])

\* C1 (as stated): of any number of concurrent approve requests for the same
\* pending session that has not expired, each with valid approver fields and
\* all three acknowledgments true, exactly one succeeds and returns a
\* signature, every other is rejected, and the session ends approved with
\* the signature_id of the one that succeeded.
C1_AsStated ==
    \A sid \in DOMAIN sessionStore :
        LET attempts == Attempts(sid, HasValidFields)
        IN  (attempts # {} /\ now <= sessionStore[sid].expires_at) =>
                ExactlyOneApproved(sid, attempts)

\* C1 (amended): the same, for requests that moreover name no
\* presence_proof_id or that of a stored presence proof.
C1_ExactlyOneApproval ==
    \A sid \in DOMAIN sessionStore :
        LET attempts == Attempts(sid, ValidAndNamesNoMissingProof)
        IN  (attempts # {} /\ now <= sessionStore[sid].expires_at) =>
                ExactlyOneApproved(sid, attempts)

\* C1 witness: two such requests for one session were in flight together
\* (the first to arrive was answered after the second had succeeded), one
\* succeeded and the other was rejected
C1_Witness ==
    /\ requests[1].pc = "done" /\ requests[2].pc = "done"
    /\ requests[1].id = requests[2].id
    /\ requests[1].id \in DOMAIN sessionStore
    /\ ValidAndNamesNoMissingProof(requests[1].body)
    /\ ValidAndNamesNoMissingProof(requests[2].body)
    /\ now <= sessionStore[requests[1].id].expires_at
    /\ requests[2].response.status = 200
    /\ requests[1].response.error = "SESSION_ALREADY_APPROVED"

\* C15: a signature returned by a successful approve request, verified by
\* POST /api/verify in the compact form in which it was returned against
\* the document uploaded for the session, is found valid, with integrity
\* intact and the trimmed approver_id and approver_name of the request.
C15_ReturnedSignatureVerifies ==
    lastVerify # Null =>
        LET request == requests[lastVerify[1].request]
            session == sessionStore[request.id]
            result == lastVerify[1].response.result
        IN  /\ lastVerify[1].document = uploads[session.document_path]
            /\ hashDocument(lastVerify[1].document) = session.document_hash
            /\ lastVerify[1].response.status = 200
            /\ result.valid = TRUE
            /\ result.document_integrity = "intact"
            /\ result.approver_id = JsString(Trim(request.body.approver_id.str))
            /\ result.approver_name = JsString(Trim(request.body.approver_name.str))

\* C15 witness: the signature of a request whose approver_id had to be
\* trimmed has been verified
C15_Witness ==
    /\ lastVerify # Null
    /\ requests[lastVerify[1].request].response.status = 200
    /\ requests[lastVerify[1].request].body.approver_id
          # lastVerify[1].response.result.approver_id
    /\ lastVerify[1].response.result.valid

\* the body has an acknowledgments object of which a flag is false
FlagFalse(body) ==
    /\ body.kind = "object"
    /\ body.acknowledgments.type = "object"
    /\ \/ body.acknowledgments.understands_approval = JsBoolean(FALSE)
       \/ body.acknowledgments.is_authorized = JsBoolean(FALSE)
       \/ body.acknowledgments.acting_knowingly = JsBoolean(FALSE)

\* the body has a non-blank approver_id and approver_name
HasValidApprover(body) ==
    /\ body.kind = "object"
    /\ body.approver_id.type = "string" /\ Trim(body.approver_id.str) # <<>>
    /\ body.approver_name.type = "string" /\ Trim(body.approver_name.str) # <<>>

\* this step is the handler of request r running from its body to its return
Handled(r) == requests[r].pc = "awaiting" /\ requests'[r].pc = "done"

\* the handler of request r answers ACKNOWLEDGMENTS_INCOMPLETE, stores no
\* presence proof and no signature, and leaves the session pending
RejectedIncomplete(r) ==
    /\ requests'[r].response.status = 400
    /\ requests'[r].response.error = "ACKNOWLEDGMENTS_INCOMPLETE"
    /\ requests'[r].signatureId = Null
    /\ presenceProofStore' = presenceProofStore
    /\ signatureStore' = signatureStore
    /\ requests[r].id \in DOMAIN sessionStore'
    /\ sessionStore'[requests[r].id].status = "pending"

\* C20 (as stated): an approve request of which one of the three
\* acknowledgment flags is false is rejected with
\* ACKNOWLEDGMENTS_INCOMPLETE, no presence proof and no signature is stored,
\* and the session stays pending.
C20_AsStated ==
    [][ \A r \in 1..MaxRequests :
          (Handled(r) /\ FlagFalse(requests[r].body)) => RejectedIncomplete(r) ]_vars

\* C20 (amended): the same, for a request with valid approver fields to a
\* session that is pending and whose deadline has not passed.
C20_IncompleteRejected ==
    [][ \A r \in 1..MaxRequests :
          ( /\ Handled(r)
            /\ FlagFalse(requests[r].body)
            /\ HasValidApprover(requests[r].body)
            /\ requests[r].id \in DOMAIN sessionStore
            /\ sessionStore[requests[r].id].status = "pending"
            /\ now <= sessionStore[requests[r].id].expires_at )
              => (RejectedIncomplete(r) /\ sessionStore' = sessionStore) ]_vars

\* C20 witness: a request whose acting_knowingly alone is false has been
\* rejected, nothing is stored and its session is pending
C20_Witness ==
    \E r \in 1..MaxRequests :
        /\ requests[r].pc = "done"
        /\ requests[r].body.kind = "object"
        /\ requests[r].body.acknowledgments
              = Acknowledgments(JsBoolean(TRUE), JsBoolean(TRUE), JsBoolean(FALSE))
        /\ requests[r].response.error = "ACKNOWLEDGMENTS_INCOMPLETE"
        /\ requests[r].id \in DOMAIN sessionStore
        /\ sessionStore[requests[r].id].status = "pending"
        /\ presenceProofStore = EmptyStore
        /\ signatureStore = EmptyStore

\* every stored record names a stored presence proof and carries its hash
RecordsBindStoredProofs ==
    \A s \in DOMAIN signatureStore :
        LET record == signatureStore[s]
        IN  /\ record.presence_proof_id.type = "string"
            /\ record.presence_proof_id.str \in DOMAIN presenceProofStore
            /\ record.presence_proof_hash
                  = JsString(hashPresenceProof(
                        presenceProofStore[record.presence_proof_id.str]))

\* a step leaves every stored presence proof stored and as it was
ProofsKept ==
    \A k \in DOMAIN presenceProofStore :
        /\ k \in DOMAIN presenceProofStore'
        /\ presenceProofStore'[k] = presenceProofStore[k]

\* C21: in every state, every record issued by the approve route carries
\* the hashPresenceProof of the proof stored under its presence_proof_id,
\* and no step changes or removes a stored presence proof.
C21_ProofHashBound == [](RecordsBindStoredProofs) /\ [][ProofsKept]_vars

\* C21 witness: a record was issued for a request that named a stored
\* proof, next to a proof created by another request
C21_Witness ==
    /\ RecordsBindStoredProofs
    /\ Cardinality(DOMAIN presenceProofStore) = 1
    /\ Cardinality(DOMAIN signatureStore) = 2
    /\ \E r \in 1..MaxRequests :
          /\ requests[r].response.status = 200
          /\ requests[r].body.presence_proof_id.type = "string"
          /\ signatureStore[requests[r].signatureId[1]].presence_proof_id
                = requests[r].body.presence_proof_id

\* every stored signature is the signature_id of an approved session
SignaturesReferenced ==
    \A s \in DOMAIN signatureStore :
        \E id \in DOMAIN sessionStore :
            /\ sessionStore[id].status = "approved"
            /\ sessionStore[id].signature_id = Some(s)

\* a handler that stores a signature returns it
StoredIsReturned ==
    \A r \in 1..MaxRequests :
        (Handled(r) /\ signatureStore' # signatureStore) =>
            /\ requests'[r].response.status = 200
            /\ requests'[r].signatureId # Null
            /\ requests'[r].signatureId[1] \in DOMAIN signatureStore'
            /\ requests'[r].response.body
                  = serializeRealitySignature(signatureStore'[requests'[r].signatureId[1]])

\* C25: after any interleaving of approve requests and clock advance, every
\* stored signature is referenced by the signature_id of an approved session,
\* and every request that stored a signature returned it, also when the
\* deadline passes between the canApprove check and approveSession.
C25_NoOrphanSignature == [](SignaturesReferenced) /\ [][StoredIsReturned]_vars

\* C28: every record issued by the approve route binds a presence proof
\* whose session_id is the id of the session that was approved, also when
\* the request named an already stored proof.
C28_ProofOfSameSession ==
    \A r \in 1..MaxRequests :
        (requests[r].pc = "done" /\ requests[r].response.status = 200) =>
            LET record == signatureStore[requests[r].signatureId[1]]
            IN  /\ record.presence_proof_id.str \in DOMAIN presenceProofStore
                /\ presenceProofStore[record.presence_proof_id.str].session_id
                      = requests[r].id

\* C29: every session created by POST /api/approvals stores a canonical,
\* non-empty intent_text and the SHA-256 digest of that text as intent_hash,
\* and every record issued for the session carries the session's
\* document_hash, intent_hash and intent_text.
C29_SessionIntentCanonical ==
    /\ \A id \in DOMAIN sessionStore :
          LET session == sessionStore[id]
          IN  /\ canonicalizeIntent(session.intent_text) = session.intent_text
              /\ session.intent_text # <<>>
              /\ session.intent_hash = hashString(session.intent_text)
    /\ \A r \in 1..MaxRequests :
          (requests[r].pc = "done" /\ requests[r].response.status = 200) =>
              LET record == signatureStore[requests[r].signatureId[1]]
                  session == sessionStore[requests[r].id]
              IN  /\ record.document_hash = JsString(session.document_hash)
                  /\ record.intent_hash = JsString(session.intent_hash)
                  /\ record.intent_text = JsString(session.intent_text)

\* C29 witness: a record was issued for a session whose intent was posted
\* with surrounding whitespace, doubled spaces and a \r\n
C29_Witness ==
    \E r \in 1..MaxRequests :
        /\ requests[r].pc = "done"
        /\ requests[r].response.status = 200
        /\ sessionStore[requests[r].id].intent_text = <<"a", " ", "b">>
        /\ signatureStore[requests[r].signatureId[1]].intent_text
              = JsString(<<"a", " ", "b">>)
        /\ JsString(<<" ", "a", " ", " ", "b", "\r", "\n">>) \in UploadIntents

---------------------------------------------------------------------------
(* Claims about the verify route (checked under VerifyRouteSpec) *)

\* a step in which /api/verify answers leaves the three stores as they were
VerifyReadsOnly ==
    lastVerify' # lastVerify =>
        /\ sessionStore' = sessionStore
        /\ signatureStore' = signatureStore
        /\ presenceProofStore' = presenceProofStore

\* what /api/verify answered is what it answers to the same form whatever
\* is stored by now, and it is what the library's verify returns for the
\* document bytes and the record of the form
VerifyAnswerOfInputsOnly ==
    lastVerify # Null =>
        /\ lastVerify[1].response = VerifyPOST(lastVerify[1].file, lastVerify[1].signature)
        /\ (lastVerify[1].response.status = 200
              /\ parseSignature(lastVerify[1].signature.str).error = "")
             => lastVerify[1].response.result
                   = verify(lastVerify[1].document,
                            JsObject(parseSignature(lastVerify[1].signature.str).value))

\* C24: verification is stateless and read-only: a call of POST /api/verify,
\* with any form and any outcome, leaves the session store, the signature
\* store and the presence-proof store unchanged, and its answer depends only
\* on the document bytes and the record supplied, not on what is stored.
C24_VerifyStateless == [](VerifyAnswerOfInputsOnly) /\ [][VerifyReadsOnly]_vars

\* C24 witness: a signature was verified against another document than
\* the one it was issued for, with a session, a proof and a signature stored
C24_Witness ==
    /\ lastVerify # Null
    /\ lastVerify[1].response.status = 200
    /\ lastVerify[1].response.result.error = "document_altered"
    /\ signatureStore # EmptyStore
    /\ presenceProofStore # EmptyStore
    /\ \E id \in DOMAIN sessionStore : sessionStore[id].status = "approved"

---------------------------------------------------------------------------
(* Claims about the session library (checked under SessionSpec) *)

\* C2: approveSession(session, ref) succeeds if and only if the session is
\* pending and the clock reading of its check is at most expires_at; on
\* success the returned session is approved, approved_at is the current
\* time (the clock when the call returns) and signature_id is ref.
C2_ApproveIffPendingInTime ==
    libCall.op = "approve" =>
        LET s == libCall.arg[1]
        IN  /\ (libCall.error = "")
                  <=> (s.status = "pending" /\ libCall.tCheck <= s.expires_at)
            /\ libCall.error = "" =>
                  /\ libCall.ret # Null
                  /\ libCall.ret[1].status = "approved"
                  /\ libCall.ret[1].approved_at = Some(libCall.tStamp)
                  /\ libCall.tStamp >= libCall.tCheck
                  /\ libCall.tStamp <= now
                  /\ libCall.ret[1].signature_id = libCall.ref

\* C2 witness: an approval exactly at the deadline has succeeded
C2_Witness ==
    /\ libCall.op = "approve"
    /\ libCall.error = ""
    /\ libCall.tCheck = libCall.arg[1].expires_at
    /\ libCall.ret[1].status = "approved"

\* C3: approveSession on an approved session is rejected with
\* SESSION_ALREADY_APPROVED and on an expired session with SESSION_EXPIRED;
\* neither returns a session, and the session is left as it was.
C3_TerminalApproveRejected ==
    libCall.op = "approve" =>
        LET s == libCall.arg[1]
        IN  /\ s.status = "approved" =>
                  /\ libCall.error = "SESSION_ALREADY_APPROVED"
                  /\ libCall.ret = Null
                  /\ libSession = libCall.arg
            /\ s.status = "expired" =>
                  /\ libCall.error = "SESSION_EXPIRED"
                  /\ libCall.ret = Null
                  /\ libSession = libCall.arg

\* C3 witness: a second approve after a successful one has been rejected
C3_Witness ==
    /\ libCall.op = "approve"
    /\ libCall.arg[1].status = "approved"
    /\ libCall.arg[1].signature_id # Null
    /\ libCall.error # ""

\* C4: an approval rejected because the deadline has passed while the
\* session is still pending is reported as SESSION_EXPIRED, never as
\* SESSION_ALREADY_APPROVED.
C4_LateApprovalReportsExpired ==
    ( /\ libCall.op = "approve"
      /\ libCall.arg[1].status = "pending"
      /\ libCall.tCheck > libCall.arg[1].expires_at )
        => libCall.error = "SESSION_EXPIRED"

\* C5: approved and expired are terminal: no library call changes the
\* status of a session that is approved or expired.
C5_TerminalStatesKept ==
    [][ ( /\ libSession # Null
          /\ libSession[1].status \in {"approved", "expired"} )
            => ( /\ libSession' # Null
                 /\ libSession'[1].status = libSession[1].status ) ]_vars

\* C6: a session returned by createSession is pending, has no signature and
\* no approval time, expires 24 hours after its creation, and can be
\* approved at its creation time.
C6_CreatedSessionPending ==
    libCall.op = "create" =>
        LET s == libCall.ret[1]
        IN  /\ s.status = "pending"
            /\ s.signature_id = Null
            /\ s.approved_at = Null
            /\ s.created_at = libCall.tCheck
            /\ s.expires_at > s.created_at
            /\ s.expires_at = s.created_at + 24 * 60 * 60 * 1000
            /\ canApprove(s, s.created_at)

\* C6 witness: createSession has returned a session
C6_Witness ==
    /\ libCall.op = "create"
    /\ libCall.ret # Null
    /\ libSession = libCall.ret

\* C26: in every session reached from createSession by approveSession and
\* expireSession calls, status is approved if and only if signature_id is
\* not null, and if and only if approved_at is not null.
C26_ApprovedIffSigned ==
    libSession # Null =>
        /\ (libSession[1].status = "approved") <=> (libSession[1].signature_id # Null)
        /\ (libSession[1].status = "approved") <=> (libSession[1].approved_at # Null)

---------------------------------------------------------------------------
(* Claims about the verifier (checked under VerifySpec) *)

\* a string of exactly 64 lowercase hexadecimal digits
IsDigestString(v) ==
    /\ v.type = "string"
    /\ Len(v.str) = 64
    /\ \A i \in 1..Len(v.str) :
          v.str[i] \in {"0", "1", "2", "3", "4", "5", "6", "7", "8", "9",
                        "a", "b", "c", "d", "e", "f"}

IsNonEmptyString(v) == v.type = "string" /\ v.str # <<>>

\* the record is not an object, or a required member is missing or has the
\* wrong type or shape
Malformed(signature) ==
    \/ signature.type # "object"
    \/ signature.obj.version # JsString(<<"1", ".", "0">>)
    \/ ~IsDigestString(signature.obj.document_hash)
    \/ ~IsDigestString(signature.obj.intent_hash)
    \/ ~IsDigestString(signature.obj.presence_proof_hash)
    \/ ~IsNonEmptyString(signature.obj.intent_text)
    \/ ~IsNonEmptyString(signature.obj.approver_id)
    \/ ~IsNonEmptyString(signature.obj.approver_name)
    \/ ~IsNonEmptyString(signature.obj.presence_proof_id)
    \/ ~IsNonEmptyString(signature.obj.signature)
    \/ ~IsNonEmptyString(signature.obj.public_key)
    \/ ~( /\ signature.obj.timestamp.type = "number"
          /\ ~signature.obj.timestamp.half
          /\ signature.obj.timestamp.num > 0 )
    \/ signature.obj.ai_flag.type # "boolean"

\* the record's signature is the signature, under the private key of the
\* record's public key, of the payload rebuilt from the record's own fields
Authentic(sig) ==
    \E k \in PrivateKeys :
        /\ FromBase64(sig.public_key.str) = getPublicKey(k)
        /\ FromBase64(sig.signature.str)
              = Ed25519Sign(Utf8(buildSignaturePayload(extractPayloadFields(sig))), k)

DocumentMatches(document, sig) ==
    sig.document_hash = JsString(hashDocument(document))

C8_AlteredDocumentReported ==
    ( /\ vResult # Null
      /\ ~Malformed(vSignature)
      /\ ~DocumentMatches(vDocument, vSignature.obj) ) =>
        /\ vResult[1].valid = FALSE
        /\ vResult[1].error = "document_altered"
        /\ vResult[1].document_integrity = "altered"
        /\ vResult[1].computed_hash = JsString(hashDocument(vDocument))
        /\ vResult[1].expected_hash = vSignature.obj.document_hash

\* C8 witness: a well-formed record with a signature that is not authentic
\* has been verified against a document it does not name
C8_Witness ==
    /\ vResult # Null
    /\ ~Malformed(vSignature)
    /\ ~DocumentMatches(vDocument, vSignature.obj)
    /\ ~Authentic(vSignature.obj)
    /\ vResult[1].error = "document_altered"

\* what verify returns for every signature that is not authentic
NotAuthenticResult ==
    [ valid              |-> FALSE,
      error              |-> "signature_not_authentic",
      document_integrity |-> "unknown",
      computed_hash      |-> JsUndefined,
      expected_hash      |-> JsUndefined,
      approver_id        |-> JsUndefined,
      approver_name      |-> JsUndefined,
      timestamp          |-> JsUndefined,
      ai_used            |-> JsUndefined ]

\* C9: for a well-formed record that names the document but whose
\* signature is not authentic, verify returns one and the same value
\* whatever the cause.
C9_NotAuthenticIsUniform ==
    ( /\ vResult # Null
      /\ ~Malformed(vSignature)
      /\ DocumentMatches(vDocument, vSignature.obj)
      /\ ~Authentic(vSignature.obj) ) =>
        vResult[1] = NotAuthenticResult

\* C9 witness: a record whose signature does not even decode to a
\* signature has been verified against the document it names
C9_Witness ==
    /\ vResult # Null
    /\ ~Malformed(vSignature)
    /\ DocumentMatches(vDocument, vSignature.obj)
    /\ FromBase64(vSignature.obj.signature.str) = <<>>
    /\ vResult[1].error = "signature_not_authentic"

\* C10: round trip: for any document, any field set whose document_hash
\* is the digest of that document and any private key,
\* verify(document, createRealitySignature(fields, key)) returns valid=true,
\* integrity intact and the record's approver_id, approver_name, timestamp
\* and ai_flag.
C10_RoundTrip ==
    ( /\ vResult # Null
      /\ vOrigin # Null
      /\ vTampers = 0
      /\ vDocument = vOrigin[1].document ) =>
        /\ vResult[1].valid = TRUE
        /\ vResult[1].document_integrity = "intact"
        /\ vResult[1].approver_id = vSignature.obj.approver_id
        /\ vResult[1].approver_name = vSignature.obj.approver_name
        /\ vResult[1].timestamp = vSignature.obj.timestamp
        /\ vResult[1].ai_used = vSignature.obj.ai_flag

\* the ten members the signature is computed over
SignedFields == SignatureFields \ {"signature", "public_key"}

\* the record differs from the validated one in this member and in no other
OnlyChanged(f) ==
    /\ vSignature.obj[f] # vValidated[1].signature[f]
    /\ \A g \in SignatureFields \ {f} : vSignature.obj[g] = vValidated[1].signature[g]

\* C11: tamper sensitivity: after verify has returned valid=true for a
\* document and a record, verify returns a failure for the same record with
\* another document, and for the same document with the record changed in
\* one signed member (signature and public_key kept).
C11_TamperDetected ==
    ( /\ vResult # Null
      /\ vValidated # Null
      /\ vSignature.type = "object"
      /\ \/ /\ vSignature.obj = vValidated[1].signature
            /\ vDocument # vValidated[1].document
         \/ /\ vDocument = vValidated[1].document
            /\ \E f \in SignedFields : OnlyChanged(f) ) =>
        /\ vResult[1].valid = FALSE
        /\ vResult[1].error \in {"invalid_signature_format", "document_altered",
                                 "signature_not_authentic"}

\* C11 witness: a record found valid has had its ai_flag flipped and has
\* been verified again with the same document
C11_Witness ==
    /\ vResult # Null
    /\ vValidated # Null
    /\ vSignature.type = "object"
    /\ vDocument = vValidated[1].document
    /\ OnlyChanged("ai_flag")
    /\ vSignature.obj.ai_flag.type = "boolean"
    /\ vResult[1].error = "signature_not_authentic"

\* C12: after verify has returned valid=true for a document and a record,
\* verify of the same document and the record with only its timestamp
\* changed, to any other value, returns valid=false with
\* signature_not_authentic.
C12_TimestampChangeNotAuthentic ==
    ( /\ vResult # Null
      /\ vValidated # Null
      /\ vSignature.type = "object"
      /\ vDocument = vValidated[1].document
      /\ OnlyChanged("timestamp") ) =>
        /\ vResult[1].valid = FALSE
        /\ vResult[1].error = "signature_not_authentic"

\* C13: createRealitySignature returns no record for a malformed field set:
\* every record it has returned, as long as it is untouched, is well-formed
\* and is not rejected by verify as invalid_signature_format.
C13_CreatedRecordWellFormed ==
    (vOrigin # Null /\ vTampers = 0) =>
        /\ ~Malformed(vSignature)
        /\ vResult # Null => vResult[1].error # "invalid_signature_format"

\* C14: for every document and record for which verify returns valid=true,
\* the record's signature was made with the signing key of the service that
\* issued the record.
C14_AcceptedOnlyFromServiceKey ==
    (vResult # Null /\ vResult[1].valid) =>
        FromBase64(vSignature.obj.signature.str)
            = Ed25519Sign(Utf8(buildSignaturePayload(extractPayloadFields(vSignature.obj))),
                          vOrigin[1].privateKey)

\* "key":value as it stands in a JSON text
JsonMember(key, value) == JsonQuote(key) \o <<":">> \o JsonValue(value)

\* the ten signed members under the keys v, dh, ih, it, ai, an, ts, pp,
\* pph, af, in this order, and nothing else
PayloadText(sig) ==
    <<"{">> \o JsonMember(<<"v">>, sig.version)
        \o <<",">> \o JsonMember(<<"d", "h">>, sig.document_hash)
        \o <<",">> \o JsonMember(<<"i", "h">>, sig.intent_hash)
        \o <<",">> \o JsonMember(<<"i", "t">>, sig.intent_text)
        \o <<",">> \o JsonMember(<<"a", "i">>, sig.approver_id)
        \o <<",">> \o JsonMember(<<"a", "n">>, sig.approver_name)
        \o <<",">> \o JsonMember(<<"t", "s">>, sig.timestamp)
        \o <<",">> \o JsonMember(<<"p", "p">>, sig.presence_proof_id)
        \o <<",">> \o JsonMember(<<"p", "p", "h">>, sig.presence_proof_hash)
        \o <<",">> \o JsonMember(<<"a", "f">>, sig.ai_flag)
        \o <<"}">>

CryptoRaises(sig) ==
    Ed25519Verify(FromBase64(sig.signature.str),
                  Utf8(buildSignaturePayload(extractPayloadFields(sig))),
                  FromBase64(sig.public_key.str)) = "throw"

\* C19: verify returns one of its four kinds of result for every value it
\* is handed, and for a well-formed record that names the document and
\* whose signature or public_key does not decode to a signature or a key it
\* returns signature_not_authentic.
C19_CryptoFailureIsResult ==
    vResult # Null =>
        /\ vResult[1].error \in {"", "invalid_signature_format", "document_altered",
                                 "signature_not_authentic"}
        /\ vResult[1].valid <=> vResult[1].error = ""
        /\ ( /\ ~Malformed(vSignature)
             /\ DocumentMatches(vDocument, vSignature.obj)
             /\ CryptoRaises(vSignature.obj) ) =>
               /\ vResult[1].valid = FALSE
               /\ vResult[1].error = "signature_not_authentic"

\* C19 witness: a record whose public_key is no base64 of a key has been
\* verified against the document it names
C19_Witness ==
    /\ vResult # Null
    /\ ~Malformed(vSignature)
    /\ DocumentMatches(vDocument, vSignature.obj)
    /\ FromBase64(vSignature.obj.public_key.str) \notin PublicKeys
    /\ CryptoRaises(vSignature.obj)
    /\ vResult[1].error = "signature_not_authentic"

---------------------------------------------------------------------------
(* Claims about the transfer format (checked under WireSpec) *)

C17_LongAndShortAccepted ==
    ( /\ wDecoded # Null
      /\ wRecord.version = Version10 ) =>
        wDecoded[1].out = Returned(wRecord)

---------------------------------------------------------------------------
(* Claims about intent canonicalization (checked under IntentSpec) *)

\* C22: canonicalizeIntent is idempotent: canonicalizing what
\* canonicalizeIntent returned gives the same text again, for every text.
C22_CanonicalizeIdempotent ==
    iResult # Null =>
        /\ iResult[1].again = iResult[1].text
        /\ iResult[1].otherAgain = iResult[1].other

\* the line terminator styles that occur in the text
TerminatorStyles(text) ==
    {"crlf" : i \in {k \in 1..(Len(text) - 1) : text[k] = "\r" /\ text[k + 1] = "\n"}}
      \cup {"cr" : i \in {k \in 1..Len(text) :
                             text[k] = "\r" /\ TerminatorEndsAt(text, k)}}
      \cup {"lf" : i \in {k \in 1..Len(text) :
                             text[k] = "\n" /\ TerminatorStartsAt(text, k)}}

\* C22 witness: a text that is not canonical, with line terminators of
\* different styles and a space or tab next to a line break, was
\* canonicalized, and canonicalizing the result changed nothing
C22_Witness ==
    /\ iResult # Null
    /\ iResult[1].other # iOther
    /\ iResult[1].other # <<>>
    /\ iResult[1].otherAgain = iResult[1].other
    /\ Cardinality(TerminatorStyles(iOther)) >= 2
    /\ \E i \in 1..(Len(iOther) - 1) :
          \/ iOther[i] \in Blanks /\ iOther[i + 1] \in {"\r", "\n"}
          \/ iOther[i] \in {"\r", "\n"} /\ iOther[i + 1] \in Blanks

\* C23: two intent texts that are the same up to spaces and tabs, line
\* endings or Unicode representation canonicalize to the same string and
\* have the same hashIntent digest.
C23_SameIntentSameCanonical ==
    iResult # Null =>
        /\ iResult[1].other = iResult[1].text
        /\ iResult[1].otherHash = iResult[1].hash

---------------------------------------------------------------------------
(* Claims about the standalone verifier (checked under CliSpec) *)

\* the stage a failed verification blames
CliStage(result) ==
    IF result.checks.format_valid = "fail" THEN "format"
    ELSE IF result.checks.document_integrity = "fail" THEN "document"
    ELSE "signature"

LibStage(result) ==
    IF result.error = "invalid_signature_format" THEN "format"
    ELSE IF result.error = "document_altered" THEN "document"
    ELSE "signature"

\* C27: for every document and compact-format record the standalone
\* verifier reports valid exactly when the library's verify returns
\* valid = true for the document and the same record under its long names,
\* and when both fail they blame the same stage.
C27_CliAgreesWithLibrary ==
    (cCli # Null /\ cLib # Null) =>
        /\ cCli[1].valid <=> cLib[1].valid
        /\ (~cCli[1].valid /\ ~cLib[1].valid) => CliStage(cCli[1]) = LibStage(cLib[1])

====
